---- MODULE Spec2Model ----
(***************************************************************************)
(* A model of the LevelDB reader of this repository: the record-log        *)
(* framing (leveldb/log_reader.py), the write-ahead-log entries, the       *)
(* manifest, the table files (leveldb/table_reader.py) and the merge done  *)
(* by DB (leveldb/db.py), the byte primitives of leveldb/util.py and the   *)
(* IndexedDB key and value decoders (indexeddb.py).                        *)
(*                                                                         *)
(* Byte strings are sequences of naturals in 0..255.  A decoding function  *)
(* that can raise returns a record with an ok field; ok = FALSE is the     *)
(* AssertionError / IndexError of the Python code.                         *)
(***************************************************************************)
EXTENDS Integers, Sequences, FiniteSets, TLC

VARIABLES
    inp,    \* the input the run was built from (never changes)
    rd,     \* get_log_records: the locals of one call
    le,     \* get_log_entries: the locals of one call
    mf,     \* Manifest: the fields of the object and the locals of __init__
    db,     \* DB: the fields of the object and the locals of __init__
    ut,     \* a call of a function of leveldb/util.py or of a checksum verification
    idb,    \* IDBKey / IDBValue: the locals of one call
    tb,     \* Table: the fields of the object and the locals of __init__
    ret     \* what the call under study returned (NoReturn until it returns)

vars == <<inp, rd, le, mf, db, ut, idb, tb, ret>>

---------------------------------------------------------------------------
(* Bounds of the model.                                                    *)

\* length of one block of a record-log file: 1024*32 in log_reader.py:77,
\* scaled down so that files of a few blocks can be enumerated
BlockSize == 16
\* physical records in an enumerated record-log file
MaxPhys == 3
\* operations in an enumerated write-ahead log
MaxLogOps == 3
\* VersionEdit fields in an enumerated manifest
MaxEdits == 3

---------------------------------------------------------------------------
(* Program constants.                                                      *)

RECORD_TYPE_FULL == 1
RECORD_TYPE_FIRST == 2
RECORD_TYPE_MIDDLE == 3
RECORD_TYPE_LAST == 4

---------------------------------------------------------------------------
(* Generic helpers.                                                        *)

NoReturn == [returned |-> FALSE]

\* the value of the variables of a part of the program that is not running
Idle == [pc |-> "idle"]

Min(a, b) == IF a < b THEN a ELSE b

\* F(e), with e evaluated once
Apply(F(_), e) == CHOOSE y \in {F(x) : x \in {e}} : TRUE

RECURSIVE Concat(_)
Concat(ss) == IF ss = <<>> THEN <<>> ELSE Head(ss) \o Concat(Tail(ss))

---------------------------------------------------------------------------
(* leveldb/crc32c.py is not part of the sources at hand.  The checksum is  *)
(* modelled as an ideal hash: the checksum of a byte string is the byte    *)
(* string itself, so two checksums agree iff the hashed bytes agree, and   *)
(* crc_update(crc(a), b) = crc(a \o b) as for a real CRC.                   *)

crc32c_crc(bytes) == bytes

crc32c_crc_update(crc, bytes) == crc \o bytes

---------------------------------------------------------------------------
(* A record-log file.  It is kept as the sequence of its physical records, *)
(* each with the byte offset at of its header and the zero padding that    *)
(* follows it; a record takes 4+2+1 header bytes and its payload.          *)
(* checksum is the stored checksum after unmasking.                        *)

PhysSize(r) == 4 + 2 + 1 + Len(r.data) + r.pad

FileLen(file) ==
    IF file = <<>> THEN 0 ELSE file[Len(file)].at + PhysSize(file[Len(file)])

\* what 7 bytes of zero padding read as: checksum 0, length 0, type 0
ZeroHeader == [at |-> 0, type |-> 0, data |-> <<>>, checksum |-> <<>>, pad |-> 0]

\* the physical record whose header starts at byte offset cur
PhysAt(file, cur) ==
    IF \E i \in 1..Len(file) : file[i].at = cur
    THEN file[CHOOSE i \in 1..Len(file) : file[i].at = cur]
    ELSE ZeroHeader

---------------------------------------------------------------------------
(* leveldb/log_reader.py: get_log_records and its helpers.                 *)
(* A block stream is the pair of absolute offsets [cur, hi) still unread.  *)

\* __get_record: (data, record_type), the stream advanced past the record
get_record(file, cur, hi) ==
    LET r == PhysAt(file, cur) IN
    IF hi - cur < 4 + 2 + 1 THEN [ok |-> FALSE, err |-> "Unexpected EOF"]
    ELSE IF hi - (cur + 4 + 2 + 1) < Len(r.data) THEN [ok |-> FALSE, err |-> "Unexpected EOF"]
    ELSE IF r.checksum # crc32c_crc_update(crc32c_crc(<<r.type>>), r.data)
         THEN [ok |-> FALSE, err |-> "block checksum mismatch"]
    ELSE [ok |-> TRUE, data |-> r.data, record_type |-> r.type,
          cur |-> cur + 4 + 2 + 1 + Len(r.data)]

\* __records_left_in_block
records_left_in_block_7(cur, hi) == hi - cur > 7

records_left_in_block(cur, hi) == hi - cur > 6

\* __get_next_block: the next BlockSize bytes of the file, None at its end
get_next_block(file, fpos) ==
    IF fpos >= FileLen(file) THEN [none |-> TRUE]
    ELSE [none |-> FALSE, cur |-> fpos, hi |-> Min(fpos + BlockSize, FileLen(file))]

\* the locals of get_log_records when it is entered
RdStart(file) ==
    [file |-> file, fpos |-> 0, cur |-> 0, hi |-> 0, records |-> <<>>,
     full_record |-> <<>>, pc |-> "next_block", err |-> ""]

RdFail(s, err) == [s EXCEPT !.pc = "failed", !.err = err]

\* lines 95-97: the next block of the outer loop, or the end of the file
StepNextBlock(s) ==
    LET b == get_next_block(s.file, s.fpos) IN
    IF b.none THEN [s EXCEPT !.pc = "done"]
    ELSE [s EXCEPT !.fpos = b.hi, !.cur = b.cur, !.hi = b.hi, !.pc = "block_loop"]

\* lines 100-105 and 122 for a FULL record: one turn of the loop over the
\* records of the block
StepBlockLoop(s) ==
    IF ~records_left_in_block(s.cur, s.hi) THEN [s EXCEPT !.pc = "next_block"]
    ELSE LET g == get_record(s.file, s.cur, s.hi) IN
         IF ~g.ok THEN RdFail(s, g.err)
         ELSE IF g.record_type # RECORD_TYPE_FULL
              THEN IF g.record_type # RECORD_TYPE_FIRST
                   THEN RdFail(s, "if record isn't full, first is expected here")
                   ELSE [s EXCEPT !.cur = g.cur, !.full_record = g.data,
                                  !.pc = "frag_loop"]
              ELSE [s EXCEPT !.cur = g.cur, !.full_record = g.data,
                             !.records = Append(s.records, g.data)]

\* the end of the file met inside a FIRST .. LAST run, as a reader that
\* gives back what it has would treat it
FragEofKeepPartial(s) ==
    [s EXCEPT !.records = Append(s.records, s.full_record), !.pc = "done"]

\* line 111: assert block is not None
FragEof(s) == RdFail(s, "expecting another block")

\* lines 115-120 (and 122 after the break): what the type of the fragment
\* just added decides; a reader that took any other type for a MIDDLE
FragDispatchLenient(t, record_type) ==
    IF record_type = RECORD_TYPE_LAST
    THEN [t EXCEPT !.records = Append(t.records, t.full_record), !.pc = "block_loop"]
    ELSE t

FragDispatch(t, record_type) ==
    IF record_type = RECORD_TYPE_MIDDLE THEN t
    ELSE IF record_type = RECORD_TYPE_LAST
         THEN [t EXCEPT !.records = Append(t.records, t.full_record),
                        !.pc = "block_loop"]
         ELSE RdFail(t, "unknown record type")

\* lines 107-122: one turn of the loop that reads up to the LAST fragment
StepFragLoop(s) ==
    LET adv == ~records_left_in_block(s.cur, s.hi)
        b == get_next_block(s.file, s.fpos)
    IN
    IF adv /\ b.none THEN FragEof(s)
    ELSE LET cur == IF adv THEN b.cur ELSE s.cur
             hi == IF adv THEN b.hi ELSE s.hi
             fpos == IF adv THEN b.hi ELSE s.fpos
             g == get_record(s.file, cur, hi)
         IN
         IF ~g.ok THEN [RdFail(s, g.err) EXCEPT !.cur = cur, !.hi = hi, !.fpos = fpos]
         ELSE FragDispatch([s EXCEPT !.cur = g.cur, !.hi = hi, !.fpos = fpos,
                                     !.full_record = s.full_record \o g.data],
                           g.record_type)

RdStep(s) ==
    CASE s.pc = "next_block" -> StepNextBlock(s)
      [] s.pc = "block_loop" -> StepBlockLoop(s)
      [] s.pc = "frag_loop" -> StepFragLoop(s)
      [] OTHER -> s

\* get_log_records run to its end: the list it returns, or the failure
RECURSIVE RdRun(_)
RdRun(s) == IF s.pc \in {"done", "failed"} THEN s ELSE RdRun(RdStep(s))

RdResult(s) ==
    IF s.pc = "done" THEN [ok |-> TRUE, records |-> s.records]
    ELSE [ok |-> FALSE, err |-> s.err]

get_log_records(file) == Apply(RdResult, RdRun(RdStart(file)))

---------------------------------------------------------------------------
(* Record-log files to read.  A file is enumerated as a sequence of        *)
(* physical records (type, payload length, whether the checksum is right)  *)
(* laid out as the LevelDB writer lays them out: when fewer than 7 bytes   *)
(* are left in a block before the next record, they are zero padding.  A   *)
(* record that does not fit in the rest of its block is written across the *)
(* boundary, which no writer does: such a file is not made of blocks.      *)

PayloadLens == {0, BlockSize - 14, BlockSize - 7}

PhysTypes == 1..5

PhysDescs == [type : PhysTypes, len : PayloadLens]

\* the payload of the i-th record: len bytes i
PayloadOf(i, len) == [j \in 1..len |-> i]

RECURSIVE LayOut(_, _, _, _)
LayOut(descs, corrupt, i, off) ==
    IF i > Len(descs) THEN <<>>
    ELSE LET d == descs[i]
             data == PayloadOf(i, d.len)
             end == off + 4 + 2 + 1 + d.len
             rest == (BlockSize - (end % BlockSize)) % BlockSize
             pad == IF rest < 7 /\ i < Len(descs) THEN rest ELSE 0
         IN <<[at |-> off, type |-> d.type, data |-> data,
               checksum |-> IF i = corrupt THEN <<>> ELSE <<d.type>> \o data,
               pad |-> pad]>>
            \o LayOut(descs, corrupt, i + 1, end + pad)

LogFile(in) == LayOut(in.descs, in.corrupt, 1, 0)

---------------------------------------------------------------------------
(* get_log_records as a state machine, one action per loop turn.           *)

InitLog ==
    /\ \E n \in 0..MaxPhys : \E descs \in [1..n -> PhysDescs] : \E corrupt \in 0..Min(n, 1) :
          inp = [descs |-> descs, corrupt |-> corrupt]
    /\ rd = RdStart(LogFile(inp))
    /\ ret = NoReturn
    /\ le = Idle /\ mf = Idle /\ db = Idle /\ ut = Idle /\ idb = Idle /\ tb = Idle

LogNextBlock ==
    /\ rd.pc = "next_block"
    /\ rd' = StepNextBlock(rd)
    /\ UNCHANGED <<inp, ret, le, mf, db, ut, idb, tb>>

LogBlockLoop ==
    /\ rd.pc = "block_loop"
    /\ rd' = StepBlockLoop(rd)
    /\ UNCHANGED <<inp, ret, le, mf, db, ut, idb, tb>>

LogFragLoop ==
    /\ rd.pc = "frag_loop"
    /\ rd' = StepFragLoop(rd)
    /\ UNCHANGED <<inp, ret, le, mf, db, ut, idb, tb>>

\* line 124: return records
LogReturn ==
    /\ rd.pc = "done"
    /\ rd' = [rd EXCEPT !.pc = "returned"]
    /\ ret' = [returned |-> TRUE, records |-> rd.records]
    /\ UNCHANGED <<inp, le, mf, db, ut, idb, tb>>

NextLog == LogNextBlock \/ LogBlockLoop \/ LogFragLoop \/ LogReturn

SpecLog == InitLog /\ [][NextLog]_vars

---------------------------------------------------------------------------
(* What a record-log file holds, read off the enumerated physical records  *)
(* without the reader: the framing of the type sequence and the logical    *)
(* records it spells.                                                      *)

TypeAt(in, i) == in.descs[i].type

InRunTypes == {RECORD_TYPE_FIRST, RECORD_TYPE_MIDDLE}

\* an illegal fragment transition somewhere in the file
HasIllegalTransition(in) ==
    \E i \in 1..Len(in.descs) :
        \/ /\ TypeAt(in, i) \in {RECORD_TYPE_MIDDLE, RECORD_TYPE_LAST}
           /\ (i = 1 \/ TypeAt(in, i - 1) \notin InRunTypes)
        \/ /\ TypeAt(in, i) \in {RECORD_TYPE_FULL, RECORD_TYPE_FIRST}
           /\ i > 1
           /\ TypeAt(in, i - 1) \in InRunTypes
        \/ TypeAt(in, i) \notin {RECORD_TYPE_FULL, RECORD_TYPE_FIRST,
                                 RECORD_TYPE_MIDDLE, RECORD_TYPE_LAST}

\* the file ends inside a FIRST MIDDLE* run
EndsInsideRun(in) ==
    /\ Len(in.descs) > 0
    /\ TypeAt(in, Len(in.descs)) \in InRunTypes

\* every physical record lies inside one block
NoStraddle(file) ==
    \A i \in 1..Len(file) :
        file[i].at \div BlockSize
            = (file[i].at + 4 + 2 + 1 + Len(file[i].data) - 1) \div BlockSize

\* a sequence of FULL records and FIRST MIDDLE* LAST runs, written in blocks
WellFramed(in) ==
    /\ ~HasIllegalTransition(in)
    /\ ~EndsInsideRun(in)
    /\ in.corrupt = 0
    /\ NoStraddle(LogFile(in))

\* the first record of the run that physical record i closes
RunStart(in, i) ==
    IF \E j \in 1..i : TypeAt(in, j) = RECORD_TYPE_FIRST
    THEN CHOOSE j \in 1..i : /\ TypeAt(in, j) = RECORD_TYPE_FIRST
                             /\ \A k \in (j + 1)..i : TypeAt(in, k) # RECORD_TYPE_FIRST
    ELSE i

LogicalRecord(in, i) ==
    LET from == IF TypeAt(in, i) = RECORD_TYPE_FULL THEN i ELSE RunStart(in, i)
    IN Concat([k \in 1..(i - from + 1) |->
                  PayloadOf(from + k - 1, in.descs[from + k - 1].len)])

RECURSIVE LogicalRecordsFrom(_, _)
LogicalRecordsFrom(in, i) ==
    IF i > Len(in.descs) THEN <<>>
    ELSE IF TypeAt(in, i) \in {RECORD_TYPE_FULL, RECORD_TYPE_LAST}
         THEN <<LogicalRecord(in, i)>> \o LogicalRecordsFrom(in, i + 1)
         ELSE LogicalRecordsFrom(in, i + 1)

\* one logical record per FULL record and per closed run, in file order
LogicalRecords(in) == LogicalRecordsFrom(in, 1)

IsPrefix(a, b) == Len(a) <= Len(b) /\ a = SubSeq(b, 1, Len(a))

---------------------------------------------------------------------------
(* Claims on get_log_records (SpecLog).                                     *)

\* C6: a file made of blocks whose physical records are FULL records and
\* FIRST MIDDLE* LAST runs is never refused, and the list returned holds one
\* logical record per FULL record and per run, in file order, a run giving
\* the concatenation of its fragments' payloads.
C6_Reassembly ==
    WellFramed(inp) =>
        /\ rd.pc # "failed"
        /\ ret.returned => ret.records = LogicalRecords(inp)

\* C6 witness: a call that returned two or more records of a well-framed
\* file, one of them longer than a block can hold.
C6_Witness ==
    /\ ret.returned
    /\ WellFramed(inp)
    /\ Len(ret.records) >= 2
    /\ \E i \in 1..Len(ret.records) : Len(ret.records[i]) > BlockSize - 7

\* C7: a file with an illegal fragment transition (MIDDLE or LAST not after
\* FIRST or MIDDLE, FIRST or FULL inside a run, a type outside FULL..LAST)
\* never makes get_log_records return: the call does not reach its return
\* statement and no record list is given back.
C7_IllegalFramingFails ==
    HasIllegalTransition(inp) =>
        /\ rd.pc \notin {"done", "returned"}
        /\ ret = NoReturn

\* C7 witness: the call failed on the framing itself, after it had already
\* collected a record, in a file with no other defect.
C7_Witness ==
    /\ rd.pc = "failed"
    /\ rd.err \in {"if record isn't full, first is expected here", "unknown record type"}
    /\ HasIllegalTransition(inp)
    /\ inp.corrupt = 0
    /\ NoStraddle(rd.file)
    /\ rd.records # <<>>

\* C8: a file that ends inside a FIRST MIDDLE* run never makes the call
\* return; a failed call gives nothing back; and the list being built only
\* ever holds closed logical records, never a partly assembled one.
C8_TruncatedRunFails ==
    /\ EndsInsideRun(inp) => (rd.pc \notin {"done", "returned"} /\ ret = NoReturn)
    /\ rd.pc = "failed" => ret = NoReturn
    /\ IsPrefix(rd.records, LogicalRecords(inp))

\* C8 witness: the run went on into a later block and the file ended before
\* its LAST fragment.
C8_Witness ==
    /\ rd.pc = "failed"
    /\ rd.err = "expecting another block"
    /\ rd.fpos > BlockSize
    /\ Len(rd.full_record) > BlockSize - 7
    /\ rd.records # <<>>

---------------------------------------------------------------------------
(* leveldb/util.py.  A stream is a byte string buf and the number pos of   *)
(* bytes already read.                                                     *)

\* bytes_left
bytes_left(buf, pos) == Len(buf) - pos

\* read_safe: n bytes, or the assertion 'Unexpected EOF'
read_safe(buf, pos, n) ==
    IF bytes_left(buf, pos) < n THEN [ok |-> FALSE, err |-> "Unexpected EOF"]
    ELSE [ok |-> TRUE, bytes |-> SubSeq(buf, pos + 1, pos + n), pos |-> pos + n]

\* 2^n by repeated doubling
RECURSIVE Pow2(_)
Pow2(n) == IF n = 0 THEN 1 ELSE 2 * Pow2(n - 1)

\* read_varint, lines 17-26: the loop from its byte_index-th turn on.
\* stream.read(1)[0] raises IndexError at the end of the stream.
RECURSIVE read_varint_loop(_, _, _, _, _, _)
read_varint_loop(buf, pos, max_bytes, is_last_byte, byte_index, retval) ==
    IF is_last_byte \/ byte_index >= max_bytes
    THEN [ok |-> TRUE, val |-> retval, pos |-> pos]
    ELSE IF pos >= Len(buf) THEN [ok |-> FALSE, err |-> "index out of range"]
    ELSE LET byte == buf[pos + 1] IN
         read_varint_loop(buf, pos + 1, max_bytes, byte < 128, byte_index + 1,
                          retval + (byte % 128) * Pow2(7 * byte_index))

read_varint(buf, pos, max_bytes) == read_varint_loop(buf, pos, max_bytes, FALSE, 0, 0)

read_varint32(buf, pos) == read_varint(buf, pos, 5)

read_varint64(buf, pos) == read_varint(buf, pos, 10)

\* int.from_bytes(bytes, 'little')
RECURSIVE from_bytes_little(_)
from_bytes_little(bytes) ==
    IF bytes = <<>> THEN 0 ELSE Head(bytes) + 256 * from_bytes_little(Tail(bytes))

---------------------------------------------------------------------------
(* Python dicts whose order is not observed are functions.                 *)

EmptyDict == <<>>

\* d[k] = v
DictSet(d, k, v) == [x \in DOMAIN d \cup {k} |-> IF x = k THEN v ELSE d[x]]

\* d.update(e)
DictUpdate(d, e) == [x \in DOMAIN d \cup DOMAIN e |-> IF x \in DOMAIN e THEN e[x] ELSE d[x]]

\* d.pop(k, None), the dict that is left
DictPop(d, k) == [x \in DOMAIN d \ {k} |-> d[x]]

---------------------------------------------------------------------------
(* leveldb/log_reader.py: __get_record_entries and get_log_entries.        *)

kTypeDeletion == 0
kTypeValue == 1

\* lines 51-64: the loop over the operations of a record, from offset pos
RECURSIVE record_ops_loop(_, _, _, _)
record_ops_loop(record, pos, entries, deleted_keys) ==
    IF bytes_left(record, pos) = 0
    THEN [ok |-> TRUE, entries |-> entries, deleted_keys |-> deleted_keys]
    ELSE LET record_type == record[pos + 1]
             key_len == read_varint32(record, pos + 1)
             key == IF key_len.ok THEN read_safe(record, key_len.pos, key_len.val)
                    ELSE key_len
             val_len == IF key.ok THEN read_varint32(record, key.pos) ELSE key
             val == IF val_len.ok THEN read_safe(record, val_len.pos, val_len.val)
                    ELSE val_len
         IN
         IF record_type = kTypeValue
         THEN IF ~val.ok THEN [ok |-> FALSE, err |-> val.err]
              ELSE record_ops_loop(record, val.pos,
                                   DictSet(entries, key.bytes, val.bytes), deleted_keys)
         ELSE IF record_type = kTypeDeletion
         THEN IF ~key.ok THEN [ok |-> FALSE, err |-> key.err]
              ELSE record_ops_loop(record, key.pos, entries,
                                   deleted_keys \cup {key.bytes})
         ELSE [ok |-> FALSE, err |-> "unknown record entry type"]

\* line 66 without its assertion
record_count_unchecked(entries, deleted_keys, count) == TRUE

\* line 66: assert len(entries)+len(deleted_keys) == count
record_count_ok(entries, deleted_keys, count) ==
    Cardinality(DOMAIN entries) + Cardinality(deleted_keys) = count

\* __get_record_entries
get_record_entries(record) ==
    LET sequence == read_safe(record, 0, 8)
        count == IF sequence.ok THEN read_safe(record, sequence.pos, 4) ELSE sequence
        ops == IF count.ok THEN record_ops_loop(record, count.pos, EmptyDict, {})
               ELSE count
    IN
    IF ~ops.ok THEN [ok |-> FALSE, err |-> ops.err]
    ELSE IF ~record_count_ok(ops.entries, ops.deleted_keys, from_bytes_little(count.bytes))
         THEN [ok |-> FALSE, err |-> "incorrect record entry count"]
         ELSE ops

\* the locals of get_log_entries when it is entered
LeStart(file) ==
    [file |-> file, records |-> <<>>, i |-> 1, entries |-> EmptyDict,
     deleted_keys |-> {}, pc |-> "get_records", err |-> ""]

\* line 133: records = get_log_records(path)
LeGetRecords(s) ==
    Apply(LAMBDA r : IF r.ok THEN [s EXCEPT !.records = r.records, !.pc = "loop"]
                     ELSE [s EXCEPT !.pc = "failed", !.err = r.err],
          get_log_records(s.file))

\* lines 134-137: one turn of the loop over the records
LeRecord(s) ==
    Apply(LAMBDA e : IF ~e.ok THEN [s EXCEPT !.pc = "failed", !.err = e.err]
                     ELSE [s EXCEPT !.entries = DictUpdate(s.entries, e.entries),
                                    !.deleted_keys = s.deleted_keys \cup e.deleted_keys,
                                    !.i = s.i + 1],
          get_record_entries(s.records[s.i]))

LeStep(s) ==
    IF s.pc = "get_records" THEN LeGetRecords(s)
    ELSE IF s.pc = "loop" /\ s.i <= Len(s.records) THEN LeRecord(s)
    ELSE IF s.pc = "loop" THEN [s EXCEPT !.pc = "done"]
    ELSE s

RECURSIVE LeRun(_)
LeRun(s) == IF s.pc \in {"done", "failed"} THEN s ELSE LeRun(LeStep(s))

\* get_log_entries run to its end: (entries, deleted_keys), or the failure
LeResult(s) ==
    IF s.pc = "done"
    THEN [ok |-> TRUE, entries |-> s.entries, deleted_keys |-> s.deleted_keys]
    ELSE [ok |-> FALSE, err |-> s.err]

get_log_entries(file) == Apply(LeResult, LeRun(LeStart(file)))

---------------------------------------------------------------------------
(* Write-ahead logs to read.  The file is written as LevelDB writes it: a  *)
(* batch is sequence(8) count(4) and its operations, and the log writer    *)
(* cuts it into FULL or FIRST MIDDLE* LAST physical records that fit the   *)
(* blocks.                                                                 *)

UserKeys == {<<97>>, <<98>>}

\* values, the empty byte string among them
UserVals == {<<>>, <<7>>}

\* the number n on width bytes, little-endian
RECURSIVE LittleEndian(_, _)
LittleEndian(n, width) ==
    IF width = 0 THEN <<>> ELSE <<n % 256>> \o LittleEndian(n \div 256, width - 1)

\* the base-128 varint of n
RECURSIVE EncodeVarint(_)
EncodeVarint(n) ==
    IF n < 128 THEN <<n>> ELSE <<128 + (n % 128)>> \o EncodeVarint(n \div 128)

LengthPrefixed(bytes) == EncodeVarint(Len(bytes)) \o bytes

EncodeOp(op) ==
    <<op.kind>> \o LengthPrefixed(op.key)
        \o (IF op.kind = kTypeValue THEN LengthPrefixed(op.val) ELSE <<>>)

EncodeBatch(b) ==
    LittleEndian(b.sequence, 8) \o LittleEndian(b.count, 4)
        \o Concat([i \in 1..Len(b.ops) |-> EncodeOp(b.ops[i])])

\* log::Writer::AddRecord of LevelDB: data appended to file as one logical record
RECURSIVE AddRecord(_, _, _)
AddRecord(file, data, begin) ==
    LET leftover == BlockSize - (FileLen(file) % BlockSize)
        padded == IF leftover < 7 /\ file # <<>>
                  THEN [file EXCEPT ![Len(file)].pad = leftover]
                  ELSE file
        avail == BlockSize - (FileLen(padded) % BlockSize) - 7
        n == Min(Len(data), avail)
        end == n = Len(data)
        type == IF begin /\ end THEN RECORD_TYPE_FULL
                ELSE IF begin THEN RECORD_TYPE_FIRST
                ELSE IF end THEN RECORD_TYPE_LAST
                ELSE RECORD_TYPE_MIDDLE
        frag == SubSeq(data, 1, n)
        written == Append(padded, [at |-> FileLen(padded), type |-> type,
                                   data |-> frag, checksum |-> <<type>> \o frag,
                                   pad |-> 0])
    IN IF end THEN written
       ELSE AddRecord(written, SubSeq(data, n + 1, Len(data)), FALSE)

RECURSIVE WriteLog(_, _)
WriteLog(file, datas) ==
    IF datas = <<>> THEN file
    ELSE WriteLog(AddRecord(file, Head(datas), TRUE), Tail(datas))

\* the operations a batch may hold; kind 2 is no kind of LevelDB
LogOps ==
    [kind : {kTypeValue}, key : UserKeys, val : UserVals]
        \cup [kind : {kTypeDeletion}, key : UserKeys, val : {<<>>}]
        \cup [kind : {2}, key : {<<97>>}, val : {<<>>}]

\* ops cut into batches after the positions in cuts; batch number bad (if
\* any) declares delta operations more than it holds
RECURSIVE BatchesFrom(_, _, _, _, _, _)
BatchesFrom(ops, cuts, bad, delta, from, nth) ==
    IF from > Len(ops) THEN <<>>
    ELSE LET to == IF \E c \in cuts : c >= from
                   THEN CHOOSE c \in cuts : c >= from /\ \A d \in cuts : d >= from => c <= d
                   ELSE Len(ops)
         IN <<[sequence |-> from,
               count |-> (to - from + 1) + (IF nth = bad THEN delta ELSE 0),
               ops |-> SubSeq(ops, from, to)]>>
            \o BatchesFrom(ops, cuts, bad, delta, to + 1, nth + 1)

Batches(in) == BatchesFrom(in.ops, in.cuts, in.bad, in.delta, 1, 1)

EntriesFile(in) ==
    LET batches == Batches(in)
    IN WriteLog(<<>>, [i \in 1..Len(batches) |-> EncodeBatch(batches[i])])

---------------------------------------------------------------------------
(* get_log_entries as a state machine.                                     *)

InitEntries ==
    /\ \E n \in 0..MaxLogOps : \E ops \in [1..n -> LogOps] :
       \E cuts \in SUBSET (1..(n - 1)) : \E bad \in 0..Min(n, 1) :
       \E delta \in (IF bad = 0 THEN {0} ELSE {-1, 1}) :
          inp = [ops |-> ops, cuts |-> cuts, bad |-> bad, delta |-> delta]
    /\ le = LeStart(EntriesFile(inp))
    /\ ret = NoReturn
    /\ rd = Idle /\ mf = Idle /\ db = Idle /\ ut = Idle /\ idb = Idle /\ tb = Idle

EntriesGetRecords ==
    /\ le.pc = "get_records"
    /\ le' = LeGetRecords(le)
    /\ UNCHANGED <<inp, ret, rd, mf, db, ut, idb, tb>>

EntriesRecord ==
    /\ le.pc = "loop"
    /\ le.i <= Len(le.records)
    /\ le' = LeRecord(le)
    /\ UNCHANGED <<inp, ret, rd, mf, db, ut, idb, tb>>

\* line 139: return entries, deleted_keys
EntriesReturn ==
    /\ le.pc = "loop"
    /\ le.i > Len(le.records)
    /\ le' = [le EXCEPT !.pc = "returned"]
    /\ ret' = [returned |-> TRUE, entries |-> le.entries, deleted_keys |-> le.deleted_keys]
    /\ UNCHANGED <<inp, rd, mf, db, ut, idb, tb>>

NextEntries == EntriesGetRecords \/ EntriesRecord \/ EntriesReturn

SpecEntries == InitEntries /\ [][NextEntries]_vars

---------------------------------------------------------------------------
(* Claims on get_log_entries (SpecEntries).                                 *)

\* the sum of the declared count fields of the batches of the file
RECURSIVE SumCounts(_)
SumCounts(batches) ==
    IF batches = <<>> THEN 0 ELSE Head(batches).count + SumCounts(Tail(batches))

\* every batch holds exactly count operations, each a VALUE or a DELETION
WellFormedBatches(in) ==
    \A i \in 1..Len(Batches(in)) :
        LET b == Batches(in)[i] IN
        /\ b.count = Len(b.ops)
        /\ \A j \in 1..Len(b.ops) : b.ops[j].kind \in {kTypeValue, kTypeDeletion}

KeysOfKind(ops, kind) == {ops[j].key : j \in {j \in 1..Len(ops) : ops[j].kind = kind}}

\* two operations of ops have the same kind and the same key
RepeatsKey(ops) ==
    \E i, j \in 1..Len(ops) :
        i < j /\ ops[i].kind = ops[j].kind /\ ops[i].key = ops[j].key

SomeBatchRepeatsKey(in) ==
    \E i \in 1..Len(Batches(in)) : RepeatsKey(Batches(in)[i].ops)

ReturnedSize == Cardinality(DOMAIN ret.entries) + Cardinality(ret.deleted_keys)

\* C9 as stated: an accepted file has len(live) + len(tombstones) equal to the
\* sum of the declared counts, and every file whose batches each hold exactly
\* count well-formed operations is accepted, repeated keys or not.
C9_CountInvariant ==
    /\ ret.returned => ReturnedSize = SumCounts(Batches(inp))
    /\ WellFormedBatches(inp) => le.pc # "failed"

\* C9 amended: in an accepted file each batch declares as its count the number
\* of distinct keys of its VALUE operations plus the number of distinct keys
\* of its DELETION operations; len(live) + len(tombstones) is at most the sum
\* of the counts, and equal to it when no key is written twice with the same
\* kind in the file; and a file whose batches each hold exactly count
\* well-formed operations is accepted if and only if no batch writes a key
\* twice with the same kind.
C9_CountPerRecord ==
    /\ ret.returned =>
          /\ \A i \in 1..Len(Batches(inp)) :
                Batches(inp)[i].count
                    = Cardinality(KeysOfKind(Batches(inp)[i].ops, kTypeValue))
                      + Cardinality(KeysOfKind(Batches(inp)[i].ops, kTypeDeletion))
          /\ ReturnedSize <= SumCounts(Batches(inp))
          /\ ~RepeatsKey(inp.ops) => ReturnedSize = SumCounts(Batches(inp))
    /\ WellFormedBatches(inp) =>
          IF SomeBatchRepeatsKey(inp)
          THEN le.pc \notin {"done", "returned"} /\ ret = NoReturn
          ELSE le.pc # "failed"

\* C9 witness: an accepted file of well-formed batches in which a key is
\* written in two batches, so that the sizes add up to less than the counts.
C9_Witness ==
    /\ ret.returned
    /\ WellFormedBatches(inp)
    /\ Len(Batches(inp)) >= 2
    /\ RepeatsKey(inp.ops)
    /\ ReturnedSize < SumCounts(Batches(inp))

---------------------------------------------------------------------------
(* leveldb/log_reader.py: Manifest.                                        *)

kComparator == 1
kLogNumber == 2
kNextFileNumber == 3
kLastSequence == 4
kCompactPointer == 5
kDeletedFile == 6
kNewFile == 7
kPrevLogNumber == 9

\* the bytes of '<none>', the comparator name before any is read
NoComparator == <<60, 110, 111, 110, 101, 62>>

\* __get_internal_key_data: a length-prefixed key without its last 8 bytes
get_internal_key_data(buf, pos) ==
    LET key_ley == read_varint32(buf, pos)
        key_data == IF key_ley.ok THEN read_safe(buf, key_ley.pos, key_ley.val)
                    ELSE key_ley
    IN IF ~key_data.ok THEN [ok |-> FALSE, err |-> key_data.err]
       ELSE [ok |-> TRUE, pos |-> key_data.pos,
             user_key |-> SubSeq(key_data.bytes, 1, Len(key_data.bytes) - 8)]

\* lines 164-172: the fields as __init__ first sets them
MfStart(file) ==
    [file |-> file, comparator_name |-> NoComparator, log_number |-> -1,
     next_file_number |-> -1, last_sequence |-> -1, compact_pointers |-> <<>>,
     deleted_files |-> <<>>, new_files |-> <<>>, prev_log_number |-> -1,
     existing_files |-> {}, records |-> <<>>, i |-> 1, pos |-> 0,
     pc |-> "get_records", err |-> ""]

MfFail(s, err) == [s EXCEPT !.pc = "failed", !.err = err]

\* line 175: records = get_log_records(path)
MfGetRecords(s) ==
    Apply(LAMBDA r : IF r.ok THEN [s EXCEPT !.records = r.records, !.pc = "loop"]
                     ELSE MfFail(s, r.err),
          get_log_records(s.file))

\* a varint64 field read into the attribute field
MfNumber(s, buf, pos, field) ==
    LET n == read_varint64(buf, pos) IN
    IF ~n.ok THEN MfFail(s, n.err)
    ELSE [s EXCEPT ![field] = n.val, !.pos = n.pos]

\* lines 180-209: one field of a VersionEdit, read at s.pos of record s.i
MfTag(s) ==
    LET buf == s.records[s.i]
        tag == buf[s.pos + 1]
        p == s.pos + 1
    IN
    IF tag = kComparator
    THEN LET cmp_len == read_varint32(buf, p)
             name == IF cmp_len.ok THEN read_safe(buf, cmp_len.pos, cmp_len.val)
                     ELSE cmp_len
         IN IF ~name.ok THEN MfFail(s, name.err)
            ELSE [s EXCEPT !.comparator_name = name.bytes, !.pos = name.pos]
    ELSE IF tag = kLogNumber THEN MfNumber(s, buf, p, "log_number")
    ELSE IF tag = kNextFileNumber THEN MfNumber(s, buf, p, "next_file_number")
    ELSE IF tag = kLastSequence THEN MfNumber(s, buf, p, "last_sequence")
    ELSE IF tag = kCompactPointer
    THEN LET level == read_varint32(buf, p)
             key == IF level.ok THEN get_internal_key_data(buf, level.pos) ELSE level
         IN IF ~key.ok THEN MfFail(s, key.err)
            ELSE [s EXCEPT !.compact_pointers = Append(@, <<level.val, key.user_key>>),
                           !.pos = key.pos]
    ELSE IF tag = kDeletedFile
    THEN LET level == read_varint32(buf, p)
             f_number == IF level.ok THEN read_varint64(buf, level.pos) ELSE level
         IN IF ~f_number.ok THEN MfFail(s, f_number.err)
            ELSE [s EXCEPT !.deleted_files = Append(@, <<level.val, f_number.val>>),
                           !.pos = f_number.pos]
    ELSE IF tag = kNewFile
    THEN LET level == read_varint32(buf, p)
             f_number == IF level.ok THEN read_varint64(buf, level.pos) ELSE level
             f_size == IF f_number.ok THEN read_varint64(buf, f_number.pos) ELSE f_number
             smallest == IF f_size.ok THEN get_internal_key_data(buf, f_size.pos)
                         ELSE f_size
             largest == IF smallest.ok THEN get_internal_key_data(buf, smallest.pos)
                        ELSE smallest
         IN IF ~largest.ok THEN MfFail(s, largest.err)
            ELSE [s EXCEPT !.new_files = Append(@, <<level.val, f_number.val, f_size.val,
                                                     smallest.user_key, largest.user_key>>),
                           !.pos = largest.pos]
    ELSE IF tag = kPrevLogNumber THEN MfNumber(s, buf, p, "prev_log_number")
    ELSE MfFail(s, "unknown tag")

\* line 211 with the first field (the level) of each tuple taken for the number
existing_files_by_level(new_files, deleted_files) ==
    {new_files[k][1] : k \in 1..Len(new_files)}
        \ {deleted_files[k][1] : k \in 1..Len(deleted_files)}

\* line 211: set(f[1] for f in new_files) - set(f[1] for f in deleted_files)
existing_files_of(new_files, deleted_files) ==
    {new_files[k][2] : k \in 1..Len(new_files)}
        \ {deleted_files[k][2] : k \in 1..Len(deleted_files)}

\* lines 176-179 and 211: the loops' headers.  At the end of a record the
\* next one is opened, and after the last one existing_files is computed.
MfAdvance(s) ==
    IF s.i > Len(s.records)
    THEN [s EXCEPT !.existing_files = existing_files_of(s.new_files, s.deleted_files),
                   !.pc = "done"]
    ELSE [s EXCEPT !.i = s.i + 1, !.pos = 0]

MfAtTag(s) ==
    /\ s.pc = "loop"
    /\ s.i <= Len(s.records)
    /\ bytes_left(s.records[s.i], s.pos) > 0

MfStep(s) ==
    IF s.pc = "get_records" THEN MfGetRecords(s)
    ELSE IF MfAtTag(s) THEN MfTag(s)
    ELSE IF s.pc = "loop" THEN MfAdvance(s)
    ELSE s

RECURSIVE MfRun(_)
MfRun(s) == IF s.pc \in {"done", "failed"} THEN s ELSE MfRun(MfStep(s))

\* Manifest(path): the object, or the failure
Manifest(file) == MfRun(MfStart(file))

---------------------------------------------------------------------------
(* Manifests to read: a sequence of VersionEdit fields, written as one     *)
(* record or as one record per field.                                      *)

\* an internal key: the user key, then 8 bytes of sequence number and kind
InternalKey(user_key) == user_key \o <<kTypeValue, 5, 0, 0, 0, 0, 0, 0>>

\* the fields a manifest may hold; tag 8 is not read by Manifest
Edits ==
    [tag : {kComparator}, level : {0}, number : {0}, bytes : {<<99>>}]
        \cup [tag : {kLogNumber}, level : {0}, number : {3, 200}, bytes : {<<>>}]
        \cup [tag : {kNextFileNumber, kLastSequence, kPrevLogNumber},
              level : {0}, number : {9}, bytes : {<<>>}]
        \cup [tag : {kCompactPointer}, level : {1}, number : {0}, bytes : {<<97>>}]
        \cup [tag : {kDeletedFile, kNewFile}, level : {0}, number : {4, 5}, bytes : {<<97>>}]
        \cup [tag : {8}, level : {0}, number : {0}, bytes : {<<>>}]

\* the size written for every new file (two bytes as a varint)
NewFileSize == 300

EncodeEdit(e) ==
    <<e.tag>> \o
    (CASE e.tag = kComparator -> LengthPrefixed(e.bytes)
       [] e.tag \in {kLogNumber, kNextFileNumber, kLastSequence, kPrevLogNumber}
            -> EncodeVarint(e.number)
       [] e.tag = kCompactPointer
            -> EncodeVarint(e.level) \o LengthPrefixed(InternalKey(e.bytes))
       [] e.tag = kDeletedFile -> EncodeVarint(e.level) \o EncodeVarint(e.number)
       [] e.tag = kNewFile
            -> EncodeVarint(e.level) \o EncodeVarint(e.number) \o EncodeVarint(NewFileSize)
               \o LengthPrefixed(InternalKey(e.bytes))
               \o LengthPrefixed(InternalKey(e.bytes \o <<122>>))
       [] OTHER -> <<>>)

ManifestFile(in) ==
    LET encoded == [k \in 1..Len(in.edits) |-> EncodeEdit(in.edits[k])]
    IN WriteLog(<<>>, IF in.one_record /\ encoded # <<>> THEN <<Concat(encoded)>>
                      ELSE encoded)

---------------------------------------------------------------------------
(* Manifest.__init__ as a state machine.                                   *)

InitManifest ==
    /\ \E n \in 0..MaxEdits : \E edits \in [1..n -> Edits] : \E one \in BOOLEAN :
          inp = [edits |-> edits, one_record |-> one]
    /\ mf = MfStart(ManifestFile(inp))
    /\ ret = NoReturn
    /\ rd = Idle /\ le = Idle /\ db = Idle /\ ut = Idle /\ idb = Idle /\ tb = Idle

ManifestGetRecords ==
    /\ mf.pc = "get_records"
    /\ mf' = MfGetRecords(mf)
    /\ UNCHANGED <<inp, ret, rd, le, db, ut, idb, tb>>

ManifestTag ==
    /\ MfAtTag(mf)
    /\ mf' = MfTag(mf)
    /\ UNCHANGED <<inp, ret, rd, le, db, ut, idb, tb>>

ManifestAdvance ==
    /\ mf.pc = "loop"
    /\ ~MfAtTag(mf)
    /\ mf' = MfAdvance(mf)
    /\ UNCHANGED <<inp, ret, rd, le, db, ut, idb, tb>>

NextManifest == ManifestGetRecords \/ ManifestTag \/ ManifestAdvance

SpecManifest == InitManifest /\ [][NextManifest]_vars

---------------------------------------------------------------------------
(* Claims on Manifest (SpecManifest).                                       *)

EditsWithTag(in, tag) == {k \in 1..Len(in.edits) : in.edits[k].tag = tag}

\* the number of the last field with this tag, -1 when there is none
LastNumber(in, tag) ==
    IF EditsWithTag(in, tag) = {} THEN -1
    ELSE in.edits[CHOOSE k \in EditsWithTag(in, tag) :
                     \A j \in EditsWithTag(in, tag) : j <= k].number

LastComparator(in) ==
    IF EditsWithTag(in, kComparator) = {} THEN NoComparator
    ELSE in.edits[CHOOSE k \in EditsWithTag(in, kComparator) :
                     \A j \in EditsWithTag(in, kComparator) : j <= k].bytes

NumbersWithTag(in, tag) == {in.edits[k].number : k \in EditsWithTag(in, tag)}

\* the numbers of the fields with this tag, in the order of the manifest
NumberSeqWithTag(in, tag) ==
    LET fields == SelectSeq(in.edits, LAMBDA e : e.tag = tag)
    IN [k \in 1..Len(fields) |-> fields[k].number]

\* C10: when Manifest has read all the fields, existing_files is the set of
\* the NewFile numbers less the DeletedFile numbers, in whatever order they
\* were read, and each other attribute is the value of the last field that
\* sets it, or its default ('<none>', -1) when no field does; an attribute no
\* field of the manifest sets has its default in every state.
C10_ManifestSummary ==
    /\ mf.pc = "done" =>
          /\ [k \in 1..Len(mf.new_files) |-> mf.new_files[k][2]]
                = NumberSeqWithTag(inp, kNewFile)
          /\ [k \in 1..Len(mf.deleted_files) |-> mf.deleted_files[k][2]]
                = NumberSeqWithTag(inp, kDeletedFile)
          /\ mf.existing_files
                = NumbersWithTag(inp, kNewFile) \ NumbersWithTag(inp, kDeletedFile)
          /\ mf.comparator_name = LastComparator(inp)
          /\ mf.log_number = LastNumber(inp, kLogNumber)
          /\ mf.next_file_number = LastNumber(inp, kNextFileNumber)
          /\ mf.last_sequence = LastNumber(inp, kLastSequence)
          /\ mf.prev_log_number = LastNumber(inp, kPrevLogNumber)
    /\ EditsWithTag(inp, kComparator) = {} => mf.comparator_name = NoComparator
    /\ EditsWithTag(inp, kLogNumber) = {} => mf.log_number = -1
    /\ EditsWithTag(inp, kNextFileNumber) = {} => mf.next_file_number = -1
    /\ EditsWithTag(inp, kLastSequence) = {} => mf.last_sequence = -1
    /\ EditsWithTag(inp, kPrevLogNumber) = {} => mf.prev_log_number = -1

\* C10 witness: a manifest read to its end in which a file number is deleted
\* before it is added, another file is live, and the log number is left unset.
C10_Witness ==
    /\ mf.pc = "done"
    /\ \E i, j \in 1..Len(inp.edits) :
          /\ i < j
          /\ inp.edits[i].tag = kDeletedFile
          /\ inp.edits[j].tag = kNewFile
          /\ inp.edits[i].number = inp.edits[j].number
          /\ inp.edits[j].number \notin mf.existing_files
    /\ mf.existing_files # {}
    /\ mf.log_number = -1

---------------------------------------------------------------------------
(* leveldb/table_reader.py.  A table file is the record of its bytes and   *)
(* of its block checksums: the four bytes of a checksum are zero in bytes, *)
(* and crcs maps their offset to the checksum they hold, unmasked.         *)

\* Table.MAGIC, 0xDB4775248B80FB57, as int.from_bytes(..., 'little') reads it
MAGIC == <<87, 251, 128, 139, 36, 117, 71, 219>>

kBlockTrailerSize == 5
kNoCompression == 0
kSnappyCompression == 1

Max(a, b) == IF a >= b THEN a ELSE b

\* stream.read(n): up to n bytes, fewer at the end of the stream
stream_read(buf, pos, n) ==
    LET end == Max(pos, Min(Len(buf), pos + n))
    IN [bytes |-> SubSeq(buf, pos + 1, end), pos |-> end]

\* an insertion-ordered dict as the sequence of its items: d[k] = v
ItemSet(items, k, v) ==
    IF \E i \in 1..Len(items) : items[i][1] = k
    THEN [i \in 1..Len(items) |-> IF items[i][1] = k THEN <<k, v>> ELSE items[i]]
    ELSE Append(items, <<k, v>>)

\* the dict of a sequence of items
DictOf(items) ==
    [k \in {items[i][1] : i \in 1..Len(items)} |->
        items[CHOOSE i \in 1..Len(items) : items[i][1] = k][2]]

\* BlockHandle(stream)
BlockHandle(buf, pos) ==
    LET offset == read_varint64(buf, pos)
        size == IF offset.ok THEN read_varint64(buf, offset.pos) ELSE offset
    IN IF ~size.ok THEN [ok |-> FALSE, err |-> size.err]
       ELSE [ok |-> TRUE, offset |-> offset.val, size |-> size.val, pos |-> size.pos]

\* the checksum held by the four bytes at offset at, after unmasking
StoredCrc(file, at) == IF at \in DOMAIN file.crcs THEN file.crcs[at] ELSE <<>>

\* Block.__init__, lines 123-154: the loop over the entries from offset pos.
\* prev_key is <<>> for None and <<key>> for a key.
RECURSIVE block_entries_loop(_, _, _, _, _, _)
block_entries_loop(data, pos, restart_offset, is_meta, prev_key, blk) ==
    IF ~(pos < restart_offset) THEN blk
    ELSE LET shared == read_varint32(data, pos)
             non_shared == IF shared.ok THEN read_varint32(data, shared.pos) ELSE shared
             val_len == IF non_shared.ok THEN read_varint32(data, non_shared.pos)
                        ELSE non_shared
         IN
         IF ~val_len.ok THEN [ok |-> FALSE, err |-> val_len.err]
         ELSE IF shared.val > 0 /\ prev_key = <<>>
         THEN [ok |-> FALSE, err |-> "'NoneType' object is not subscriptable"]
         ELSE
         LET shared_key_data == IF shared.val > 0
                                THEN SubSeq(prev_key[1], 1,
                                            Min(shared.val, Len(prev_key[1])))
                                ELSE <<>>
             key_read == stream_read(data, val_len.pos, non_shared.val)
             key == shared_key_data \o key_read.bytes
             val_read == stream_read(data, key_read.pos, val_len.val)
             val == val_read.bytes
             user_key == SubSeq(key, 1, Len(key) - 8)
             record_type == key[Len(key) - 7]
         IN
         IF ~(Len(key) > 8) THEN [ok |-> FALSE, err |-> "key too short"]
         ELSE IF is_meta
         THEN block_entries_loop(data, val_read.pos, restart_offset, is_meta, <<key>>,
                  [blk EXCEPT !.meta_entries = DictSet(@, user_key, val)])
         ELSE IF record_type = kTypeValue
         THEN block_entries_loop(data, val_read.pos, restart_offset, is_meta, <<key>>,
                  [blk EXCEPT !.entries = ItemSet(@, user_key, val)])
         ELSE IF record_type = kTypeDeletion
         THEN block_entries_loop(data, val_read.pos, restart_offset, is_meta, <<key>>,
                  [blk EXCEPT !.deleted_entries = DictSet(@, user_key, val)])
         ELSE [ok |-> FALSE, err |-> "unknown block entry type"]

\* the checksum of the block type, then of the data
block_crc_type_first(data, block_type) ==
    crc32c_crc_update(crc32c_crc(<<block_type>>), data)

\* lines 99-100: the checksum of the data, then of the block type
block_crc(data, block_type) ==
    crc32c_crc_update(crc32c_crc(data), <<block_type>>)

\* Block(handle, stream, is_meta): entries is the sequence of the items of the
\* dict, in insertion order.  A compressed block is outside this model.
Block(file, handle, is_meta) ==
    LET buf == read_safe(file.bytes, handle.offset, handle.size + kBlockTrailerSize)
    IN
    IF handle.offset > Len(file.bytes) \/ ~buf.ok
    THEN [ok |-> FALSE, err |-> "Unexpected EOF"]
    ELSE
    LET data == SubSeq(buf.bytes, 1, handle.size)
        block_type == buf.bytes[handle.size + 1]
        crc == StoredCrc(file, handle.offset + handle.size + 1)
        max_restarts == (Len(data) - 4) \div 4
        restarts == from_bytes_little(SubSeq(data, Max(1, Len(data) - 3), Len(data)))
        restart_offset == Len(data) - (1 + restarts) * 4
    IN
    IF crc # block_crc(data, block_type)
    THEN [ok |-> FALSE, err |-> "block checksum mismatch"]
    ELSE IF block_type = kSnappyCompression
    THEN [ok |-> FALSE, err |-> "compressed block"]
    ELSE IF block_type # kNoCompression
    THEN [ok |-> FALSE, err |-> "invalid block type"]
    ELSE IF ~(restarts <= max_restarts)
    THEN [ok |-> FALSE, err |-> "invalid restarts"]
    ELSE block_entries_loop(data, 0, restart_offset, is_meta, <<>>,
             [ok |-> TRUE, entries |-> <<>>, meta_entries |-> EmptyDict,
              deleted_entries |-> EmptyDict])

\* lines 46-47: the data block of the handle held by the index value val
data_block_of(file, val) ==
    LET data_block_handle == BlockHandle(val, 0)
    IN IF ~data_block_handle.ok THEN data_block_handle
       ELSE Block(file, data_block_handle, FALSE)

\* Table.__init__, lines 44-57: the data blocks of the items of the index
\* block from the i-th on, merged into tbl as they are read
RECURSIVE table_blocks_loop(_, _, _, _)
table_blocks_loop(file, items, i, tbl) ==
    IF i > Len(items) THEN tbl
    ELSE Apply(LAMBDA data_block :
                 IF ~data_block.ok THEN [ok |-> FALSE, err |-> data_block.err]
                 ELSE table_blocks_loop(file, items, i + 1,
                          [tbl EXCEPT
                             !.entries = DictUpdate(@, DictOf(data_block.entries)),
                             !.meta_entries = DictUpdate(@, data_block.meta_entries),
                             !.deleted_entries =
                                 DictUpdate(@, data_block.deleted_entries)]),
               data_block_of(file, items[i][2]))

\* lines 42-57, for the index block and the metaindex block of lines 39-40
table_of_blocks(file, index_block, meta_block) ==
    IF ~meta_block.ok THEN [ok |-> FALSE, err |-> meta_block.err]
    ELSE table_blocks_loop(file, index_block.entries, 1,
             [ok |-> TRUE, entries |-> EmptyDict, meta_entries |-> EmptyDict,
              deleted_entries |-> EmptyDict])

\* Table(path)
Table(file) ==
    LET size == Len(file.bytes)
        index_meta_blocks == SubSeq(file.bytes, size - 47, size - 8)
        metaindex_handle == BlockHandle(index_meta_blocks, 0)
        index_handle == IF metaindex_handle.ok
                        THEN BlockHandle(index_meta_blocks, metaindex_handle.pos)
                        ELSE metaindex_handle
    IN
    IF size < 8 THEN [ok |-> FALSE, err |-> "Invalid argument"]
    ELSE IF SubSeq(file.bytes, size - 7, size) # MAGIC
    THEN [ok |-> FALSE, err |-> "Not a valid table file"]
    ELSE IF size < 48 THEN [ok |-> FALSE, err |-> "Invalid argument"]
    ELSE IF ~index_handle.ok THEN [ok |-> FALSE, err |-> index_handle.err]
    ELSE Apply(LAMBDA index_block :
                 Apply(LAMBDA meta_block : table_of_blocks(file, index_block, meta_block),
                       IF index_block.ok THEN Block(file, metaindex_handle, TRUE)
                       ELSE index_block),
               Block(file, index_handle, FALSE))

---------------------------------------------------------------------------
(* Table files to read, written as LevelDB's TableBuilder writes them      *)
(* without compression and without a filter: data blocks, a metaindex      *)
(* block, an index block and the footer.  A data block is closed after     *)
(* BlockEntries entries.                                                   *)

\* operations in the history of an enumerated database folder
MaxDbOps == 3
\* entries of a data block: blocks are closed by size in LevelDB (4096 bytes),
\* scaled down so that tables of several data blocks can be enumerated
BlockEntries == 2

\* the internal key of an operation: user key, kind, sequence number
InternalKeyOf(op) == op.key \o <<op.kind>> \o LittleEndian(op.sequence, 7)

RECURSIVE KeyLess(_, _)
KeyLess(a, b) ==
    IF b = <<>> THEN FALSE
    ELSE IF a = <<>> THEN TRUE
    ELSE IF Head(a) # Head(b) THEN Head(a) < Head(b)
    ELSE KeyLess(Tail(a), Tail(b))

\* InternalKeyComparator: user keys ascending, then sequence numbers descending
InternalLess(x, y) ==
    KeyLess(x.key, y.key) \/ (x.key = y.key /\ x.sequence > y.sequence)

RECURSIVE SortOps(_)
SortOps(ops) ==
    IF ops = {} THEN <<>>
    ELSE LET first == CHOOSE x \in ops : \A y \in ops \ {x} : InternalLess(x, y)
         IN <<first>> \o SortOps(ops \ {first})

RECURSIVE SharedLen(_, _)
SharedLen(a, b) ==
    IF a = <<>> \/ b = <<>> THEN 0
    ELSE IF Head(a) # Head(b) THEN 0
    ELSE 1 + SharedLen(Tail(a), Tail(b))

\* BlockBuilder::Add for each of items, a restart point every interval entries
RECURSIVE BlockAdd(_, _, _)
BlockAdd(b, items, interval) ==
    IF items = <<>> THEN b
    ELSE LET key == items[1][1]
             val == items[1][2]
             restart == b.counter >= interval
             shared == IF restart THEN 0 ELSE SharedLen(b.last_key, key)
             entry == EncodeVarint(shared) \o EncodeVarint(Len(key) - shared)
                          \o EncodeVarint(Len(val))
                          \o SubSeq(key, shared + 1, Len(key)) \o val
         IN BlockAdd([bytes |-> b.bytes \o entry,
                      restarts |-> IF restart THEN Append(b.restarts, Len(b.bytes))
                                   ELSE b.restarts,
                      counter |-> IF restart THEN 1 ELSE b.counter + 1,
                      last_key |-> key],
                     Tail(items), interval)

\* BlockBuilder::Finish: the entries, the restart points and their number
BuildBlock(items, interval) ==
    Apply(LAMBDA b :
            b.bytes \o Concat([i \in 1..Len(b.restarts) |-> LittleEndian(b.restarts[i], 4)])
                \o LittleEndian(Len(b.restarts), 4),
          BlockAdd([bytes |-> <<>>, restarts |-> <<0>>, counter |-> 0,
                    last_key |-> <<>>], items, interval))

EncodeHandle(offset, size) == EncodeVarint(offset) \o EncodeVarint(size)

\* TableBuilder::WriteRawBlock: the contents, the block type and the checksum
\* of both
AppendBlock(file, contents) ==
    [bytes |-> file.bytes \o contents \o <<kNoCompression, 0, 0, 0, 0>>,
     crcs |-> DictSet(file.crcs, Len(file.bytes) + Len(contents) + 1,
                      contents \o <<kNoCompression>>)]

\* the data blocks of items appended to w.file, and their index entries.  The
\* index key of a block is its last key: FindShortestSeparator and
\* FindShortSuccessor of the internal key comparator change a key only when
\* they make its user key shorter, which they cannot for user keys of one byte.
RECURSIVE WriteDataBlocks(_, _)
WriteDataBlocks(w, items) ==
    IF items = <<>> THEN w
    ELSE LET n == Min(BlockEntries, Len(items)) IN
         Apply(LAMBDA contents :
                 WriteDataBlocks(
                     [file |-> AppendBlock(w.file, contents),
                      index |-> Append(w.index,
                                       <<items[n][1],
                                         EncodeHandle(Len(w.file.bytes), Len(contents))>>)],
                     SubSeq(items, n + 1, Len(items))),
               BuildBlock(SubSeq(items, 1, n), 16))

\* the entries of a table that holds the operations ops
TableItems(ops) ==
    Apply(LAMBDA sorted :
            [i \in 1..Len(sorted) |-> <<InternalKeyOf(sorted[i]), sorted[i].val>>],
          SortOps(ops))

\* TableBuilder::Finish: after the data blocks w, the metaindex block, the
\* index block and the footer
FinishTable(w, meta_items) ==
    LET metaindex == BuildBlock(meta_items, 16)
        metaindex_handle == EncodeHandle(Len(w.file.bytes), Len(metaindex))
        with_meta == AppendBlock(w.file, metaindex)
        index == BuildBlock(w.index, 1)
        index_handle == EncodeHandle(Len(with_meta.bytes), Len(index))
        with_index == AppendBlock(with_meta, index)
        handles == metaindex_handle \o index_handle
        footer == handles \o [i \in 1..(40 - Len(handles)) |-> 0] \o MAGIC
    IN [bytes |-> with_index.bytes \o footer, crcs |-> with_index.crcs]

\* the table file of a set of operations and of the items of its metaindex
TableFile(ops, meta_items) ==
    Apply(LAMBDA w : FinishTable(w, meta_items),
          WriteDataBlocks([file |-> [bytes |-> <<>>, crcs |-> EmptyDict],
                           index |-> <<>>], TableItems(ops)))

---------------------------------------------------------------------------
(* Database folders to read.  The history of the database is a sequence of *)
(* operations, the k-th with sequence number k: the first s1 are in table  *)
(* file 4, the next ones up to s2 in table file 5, and the rest in the     *)
(* log file, one batch each.  A table or a log without operations is not   *)
(* written.  The metaindex of table file 4 is empty, that of table file 5  *)
(* has one entry.                                                          *)

\* the key of the metaindex entry: a filter name that starts as a user key
MetaKey == <<98>> \o <<102, 105, 108, 116, 101, 114, 46, 120>>

HistoryOps == [kind : {kTypeValue}, key : UserKeys, val : UserVals]
                  \cup [kind : {kTypeDeletion}, key : UserKeys, val : {<<>>}]

\* the operations lo..hi of the history, with their sequence numbers
OpsIn(in, lo, hi) ==
    {[kind |-> in.ops[k].kind, key |-> in.ops[k].key, val |-> in.ops[k].val,
      sequence |-> k] : k \in lo..hi}

\* the table files of the folder, by number
TablesOf(in) ==
    LET numbers == (IF in.s1 > 0 THEN {4} ELSE {}) \cup (IF in.s2 > in.s1 THEN {5} ELSE {})
    IN [f \in numbers |->
          IF f = 4 THEN TableFile(OpsIn(in, 1, in.s1), <<>>)
          ELSE TableFile(OpsIn(in, in.s1 + 1, in.s2),
                         <<<<MetaKey, EncodeHandle(0, 0)>>>>)]

\* the log files of the folder, by number
LogsOf(in) ==
    [f \in (IF in.has_log THEN {3} ELSE {}) |->
     WriteLog(<<>>, [k \in 1..(Len(in.ops) - in.s2) |->
                       EncodeBatch([sequence |-> in.s2 + k, count |-> 1,
                                    ops |-> <<in.ops[in.s2 + k]>>])])]

\* the manifest of the folder: file 6 was added and deleted again
ManifestOf(in) ==
    LET edit(tag, number) == [tag |-> tag, level |-> 0, number |-> number,
                              bytes |-> <<97>>]
    IN ManifestFile(
           [edits |-> <<edit(kComparator, 0)>>
                      \o (IF in.has_log THEN <<edit(kLogNumber, 3)>> ELSE <<>>)
                      \o <<edit(kNextFileNumber, 7), edit(kLastSequence, Len(in.ops)),
                           edit(kNewFile, 6)>>
                      \o (IF in.s1 > 0 THEN <<edit(kNewFile, 4)>> ELSE <<>>)
                      \o <<edit(kDeletedFile, 6)>>
                      \o (IF in.s2 > in.s1 THEN <<edit(kNewFile, 5)>> ELSE <<>>),
            one_record |-> FALSE])

\* the folder of a history h: the history and the files
Folder(h) ==
    [ops |-> h.ops, s1 |-> h.s1, s2 |-> h.s2, has_log |-> h.has_log,
     manifest |-> ManifestOf(h), tables |-> TablesOf(h), logs |-> LogsOf(h)]

---------------------------------------------------------------------------
(* leveldb/db.py: DB.__init__.                                             *)

\* lines 36-39
DbStart ==
    [pc |-> "get_manifest", existing_files |-> {}, log_number |-> -1, todo |-> {},
     entries |-> EmptyDict, meta_entries |-> EmptyDict, deleted_entries |-> EmptyDict,
     deleted_keys |-> {}, merged |-> EmptyDict, err |-> ""]

DbFail(s, err) == [s EXCEPT !.pc = "failed", !.err = err]

\* line 36: self.manifest = self.get_manifest()
DbGetManifest(in, s) ==
    Apply(LAMBDA manifest :
            IF manifest.pc # "done" THEN DbFail(s, manifest.err)
            ELSE [s EXCEPT !.existing_files = manifest.existing_files,
                           !.log_number = manifest.log_number,
                           !.todo = manifest.existing_files,
                           !.pc = "tables"],
          Manifest(in.manifest))

\* lines 43-49: one turn of the loop over existing_files, for file f_number
DbTable(in, s, f_number) ==
    Apply(LAMBDA table :
            IF ~table.ok THEN DbFail(s, table.err)
            ELSE [s EXCEPT !.entries = DictUpdate(@, table.entries),
                           !.meta_entries = DictUpdate(@, table.meta_entries),
                           !.deleted_entries = DictUpdate(@, table.deleted_entries),
                           !.todo = @ \ {f_number}],
          IF f_number \in DOMAIN in.tables THEN Table(in.tables[f_number])
          ELSE [ok |-> FALSE, err |-> "No such file or directory"])

\* lines 52-59: the log file.  merged keeps entries as line 59 leaves it.
DbLog(in, s) ==
    IF s.log_number = -1
    THEN [s EXCEPT !.deleted_keys = {}, !.merged = s.entries, !.pc = "purge"]
    ELSE Apply(LAMBDA log :
                 IF ~log.ok THEN DbFail(s, log.err)
                 ELSE [s EXCEPT !.entries = DictUpdate(@, log.entries),
                                !.merged = DictUpdate(s.entries, log.entries),
                                !.deleted_keys = log.deleted_keys,
                                !.pc = "purge"],
               IF s.log_number \in DOMAIN in.logs
               THEN get_log_entries(in.logs[s.log_number])
               ELSE [ok |-> FALSE, err |-> "No such file or directory"])

\* lines 62-63 left out
purge_nothing(entries, deleted_entries) == entries

\* lines 62-63: for k in self.deleted_entries: self.entries.pop(k, None)
purge_deleted(entries, deleted_entries) ==
    [k \in DOMAIN entries \ DOMAIN deleted_entries |-> entries[k]]

DbPurge(s) ==
    [s EXCEPT !.entries = purge_deleted(s.entries, s.deleted_entries), !.pc = "move"]

\* line 67: if deleted_val, for what entries.pop(k, None) returned
deleted_val_true(entries, k) == k \in DOMAIN entries /\ entries[k] # <<>>

\* lines 65-68: the loop over deleted_keys
DbMove(s) ==
    LET moved == {k \in s.deleted_keys : deleted_val_true(s.entries, k)} IN
    [s EXCEPT !.entries = [k \in DOMAIN s.entries \ s.deleted_keys |-> s.entries[k]],
              !.deleted_entries = [k \in DOMAIN s.deleted_entries \cup moved |->
                                     IF k \in moved THEN s.entries[k]
                                     ELSE s.deleted_entries[k]],
              !.pc = "done"]

---------------------------------------------------------------------------
(* DB.__init__ as a state machine.  The loop over existing_files, a set,   *)
(* takes the files in any order.                                           *)

InitDB ==
    /\ \E n \in 0..MaxDbOps : \E ops \in [1..n -> HistoryOps] :
       \E s2 \in 0..n : \E s1 \in 0..s2 :
          inp = Folder([ops |-> ops, s1 |-> s1, s2 |-> s2, has_log |-> s2 < n])
    /\ db = DbStart
    /\ ret = NoReturn
    /\ rd = Idle /\ le = Idle /\ mf = Idle /\ ut = Idle /\ idb = Idle /\ tb = Idle

DBGetManifest ==
    /\ db.pc = "get_manifest"
    /\ db' = DbGetManifest(inp, db)
    /\ UNCHANGED <<inp, ret, rd, le, mf, ut, idb, tb>>

DBReadTable ==
    /\ db.pc = "tables"
    /\ \E f_number \in db.todo : db' = DbTable(inp, db, f_number)
    /\ UNCHANGED <<inp, ret, rd, le, mf, ut, idb, tb>>

DBReadLog ==
    /\ db.pc = "tables"
    /\ db.todo = {}
    /\ db' = DbLog(inp, db)
    /\ UNCHANGED <<inp, ret, rd, le, mf, ut, idb, tb>>

DBPurgeDeleted ==
    /\ db.pc = "purge"
    /\ db' = DbPurge(db)
    /\ UNCHANGED <<inp, ret, rd, le, mf, ut, idb, tb>>

DBMoveDeletedKeys ==
    /\ db.pc = "move"
    /\ db' = DbMove(db)
    /\ UNCHANGED <<inp, ret, rd, le, mf, ut, idb, tb>>

NextDB == DBGetManifest \/ DBReadTable \/ DBReadLog \/ DBPurgeDeleted \/ DBMoveDeletedKeys

SpecDB == InitDB /\ [][NextDB]_vars

---------------------------------------------------------------------------
(* Claims on DB (SpecDB).                                                  *)

\* the sequence numbers of the operations of the history on key k, of a kind
OpsOn(in, k, kind) ==
    {i \in 1..Len(in.ops) : in.ops[i].key = k /\ in.ops[i].kind = kind}

\* the sequence numbers of the operations held by table files, and by the log
InTables(in) == 1..in.s2
InLog(in) == (in.s2 + 1)..Len(in.ops)

Last(S) == CHOOSE i \in S : \A j \in S : j <= i

\* the value None of Python
None == <<-1>>

\* C1: when DB.__init__ has ended, whatever the manifest, the table files and
\* the log, no user key is in two of entries, deleted_entries and meta_entries.
C1_SnapshotPartition ==
    db.pc = "done" =>
        /\ DOMAIN db.entries \cap DOMAIN db.deleted_entries = {}
        /\ DOMAIN db.meta_entries \cap DOMAIN db.entries = {}
        /\ DOMAIN db.meta_entries \cap DOMAIN db.deleted_entries = {}

\* C1 witness: a snapshot with live and deleted keys, built from a table whose
\* metaindex entry has the user key of a live entry, and in which a key that
\* was in entries after the log was read is now in deleted_entries.
C1_Witness ==
    /\ db.pc = "done"
    /\ 5 \in db.existing_files
    /\ SubSeq(MetaKey, 1, Len(MetaKey) - 8) \in DOMAIN db.entries
    /\ DOMAIN db.merged \cap DOMAIN db.deleted_entries # {}

\* C2: every key that is in a live table file, as a VALUE or as a DELETION,
\* and is written by a VALUE operation of the log is in entries when
\* DB.__init__ has ended, with the value of the last VALUE operation of the
\* log on it.
C2_LogOverlayPrecedence ==
    db.pc = "done" =>
        \A k \in UserKeys :
            LET in_tables == (OpsOn(inp, k, kTypeValue) \cup OpsOn(inp, k, kTypeDeletion))
                                 \cap InTables(inp)
                log_values == OpsOn(inp, k, kTypeValue) \cap InLog(inp)
            IN in_tables # {} /\ log_values # {} =>
                  /\ k \in DOMAIN db.entries
                  /\ db.entries[k] = inp.ops[Last(log_values)].val

\* C3: a key with a DELETION of a greater sequence number than each of its
\* VALUEs is in deleted_entries when DB.__init__ has ended, whatever the
\* values are.
C3_TombstoneDominance ==
    db.pc = "done" =>
        \A k \in UserKeys :
            (\E d \in OpsOn(inp, k, kTypeDeletion) :
                \A v \in OpsOn(inp, k, kTypeValue) : v < d)
            => k \in DOMAIN db.deleted_entries

\* C4: every key deleted by the log is in deleted_entries when DB.__init__ has
\* ended: with the value it had in entries after the tables and the log were
\* merged, or with None when it had none.
C4_LogTombstonesRecorded ==
    db.pc = "done" =>
        \A k \in db.deleted_keys :
            /\ k \in DOMAIN db.deleted_entries
            /\ db.deleted_entries[k] = IF k \in DOMAIN db.merged THEN db.merged[k]
                                       ELSE None

\* C5: when DB.__init__ has ended, the last operation on every key of
\* deleted_entries is a DELETION, and a key whose last operation is a VALUE is
\* in entries and not in deleted_entries.
C5_LastActionDecides ==
    db.pc = "done" =>
        \A k \in UserKeys :
            LET values == OpsOn(inp, k, kTypeValue)
                deletions == OpsOn(inp, k, kTypeDeletion)
                last_is_value == values # {} /\ \A d \in deletions : d < Last(values)
            IN /\ k \in DOMAIN db.deleted_entries => ~last_is_value
               /\ last_is_value =>
                     k \in DOMAIN db.entries /\ k \notin DOMAIN db.deleted_entries

---------------------------------------------------------------------------
(* Integers of any size.  A Python int has no width; the 64-bit values of  *)
(* leveldb/util.py and indexeddb.py are modelled by their bits, least      *)
(* significant first and without leading zero bits (zero is <<>>), and     *)
(* the operations on them are computed bit by bit.                         *)

\* number of freely chosen bits in an enumerated integer
PatBits == 3

\* the width of the integers the 64-bit functions are defined for
WordBits == 8 * 8

RECURSIVE Norm(_)
Norm(b) ==
    IF b = <<>> \/ b[Len(b)] = 1 THEN b ELSE Norm(SubSeq(b, 1, Len(b) - 1))

\* bit i (0 is the least significant) of the integer b
BitAt(b, i) == IF i < Len(b) THEN b[i + 1] ELSE 0

\* the integer of a small natural number
RECURSIVE BitsOf(_)
BitsOf(n) == IF n = 0 THEN <<>> ELSE <<n % 2>> \o BitsOf(n \div 2)

\* the small natural number of an integer of at most 30 bits
RECURSIVE NatOf(_)
NatOf(b) == IF b = <<>> THEN 0 ELSE Head(b) + 2 * NatOf(Tail(b))

\* val << n  and  val >> n
ShiftLeft(b, n) == IF b = <<>> THEN <<>> ELSE [i \in 1..n |-> 0] \o b
ShiftRight(b, n) == SubSeq(b, n + 1, Len(b))

\* a + b, by ripple carry
RECURSIVE AddCarry(_, _, _, _)
AddCarry(a, b, i, carry) ==
    IF i >= Len(a) /\ i >= Len(b)
    THEN IF carry = 1 THEN <<1>> ELSE <<>>
    ELSE LET s == BitAt(a, i) + BitAt(b, i) + carry IN
         <<s % 2>> \o AddCarry(a, b, i + 1, s \div 2)

Add(a, b) == Norm(AddCarry(a, b, 0, 0))

\* int.to_bytes(val, length, 'little'); Python raises OverflowError when
\* val does not fit
int_to_bytes(val, length) ==
    IF Len(val) > 8 * length
    THEN [ok |-> FALSE, err |-> "int too big to convert"]
    ELSE [ok |-> TRUE,
          bytes |-> [i \in 1..length |->
                       BitAt(val, 8 * (i - 1)) + 2 * BitAt(val, 8 * (i - 1) + 1)
                       + 4 * BitAt(val, 8 * (i - 1) + 2) + 8 * BitAt(val, 8 * (i - 1) + 3)
                       + 16 * BitAt(val, 8 * (i - 1) + 4) + 32 * BitAt(val, 8 * (i - 1) + 5)
                       + 64 * BitAt(val, 8 * (i - 1) + 6) + 128 * BitAt(val, 8 * (i - 1) + 7)]]

\* int.from_bytes(bytes, 'little')
int_from_bytes(bytes) ==
    Norm([i \in 1..(8 * Len(bytes)) |->
            (bytes[((i - 1) \div 8) + 1] \div Pow2((i - 1) % 8)) % 2])

\* buf[:stop] of Python: a negative stop counts from the end, and -0 is 0
SliceTo(buf, stop) ==
    SubSeq(buf, 1, IF stop < 0 THEN Max(Len(buf) + stop, 0) ELSE Min(stop, Len(buf)))

\* the enumerated integers of [0, 2^width): PatBits arbitrary bits at any
\* position, above zeros or above ones
WordsOf(width) ==
    {Norm([i \in 1..shift |-> fill] \o [i \in 1..PatBits |-> (p \div Pow2(i - 1)) % 2]) :
        p \in 0..(Pow2(PatBits) - 1), shift \in 0..(width - PatBits), fill \in {0, 1}}

Words == WordsOf(WordBits)

---------------------------------------------------------------------------
(* int64_to_bytes_compact (leveldb/util.py).                               *)

\* lines 76-81: the loop over i = 7 .. 1, counting zero bytes from the end
RECURSIVE trailing_zero_loop(_, _, _)
trailing_zero_loop(buf, i, trailing_zero_count) ==
    IF i < 1 THEN trailing_zero_count
    ELSE IF buf[i + 1] = 0 THEN trailing_zero_loop(buf, i - 1, trailing_zero_count + 1)
    ELSE trailing_zero_count

int64_to_bytes_compact(val) ==
    LET buf == int_to_bytes(val, 8) IN
    IF ~buf.ok THEN buf
    ELSE [ok |-> TRUE,
          bytes |-> SliceTo(buf.bytes, -trailing_zero_loop(buf.bytes, 8 - 1, 0))]

InitCompact ==
    /\ \E val \in Words : inp = [val |-> val]
    /\ ut = [pc |-> "call"]
    /\ ret = NoReturn
    /\ rd = Idle /\ le = Idle /\ mf = Idle /\ db = Idle /\ idb = Idle /\ tb = Idle

CompactCall ==
    /\ ut.pc = "call"
    /\ ut' = [pc |-> "returned"]
    /\ ret' = [returned |-> TRUE] @@ int64_to_bytes_compact(inp.val)
    /\ UNCHANGED <<inp, rd, le, mf, db, idb, tb>>

NextCompact == CompactCall

SpecCompact == InitCompact /\ [][NextCompact]_vars

\* zero-padding bytes to 8 bytes
PadTo8(bytes) == bytes \o [i \in 1..(8 - Len(bytes)) |-> 0]

\* C11: for every n in [0, 2^64), int64_to_bytes_compact(n) has length 1
\* iff n < 256, length 8 iff n >= 2^56, a length between 1 and 8 in all
\* cases, and padded with zeros to 8 bytes it reads little-endian as n.
C11_CompactLength ==
    ret.returned =>
        /\ ret.ok
        /\ (Len(ret.bytes) = 1) <=> (Len(inp.val) <= 8)
        /\ (Len(ret.bytes) = 8) <=> (Len(inp.val) > 56)
        /\ Len(ret.bytes) \in 1..8
        /\ int_from_bytes(PadTo8(ret.bytes)) = inp.val

---------------------------------------------------------------------------
(* read_varint on integers of any size (leveldb/util.py:4-34).  The        *)
(* operator read_varint above is the same loop on values below 2^31.       *)

\* continuation bytes in an enumerated stream that is not an encoding
MaxCont == 11

\* lines 13-15
VarintStart(buf, pos, max_bytes) ==
    [pc |-> "loop", buf |-> buf, pos |-> pos, max_bytes |-> max_bytes,
     is_last_byte |-> FALSE, byte_index |-> 0, retval |-> <<>>]

\* the shift of line 23, per byte index
varint_shift_8(byte_index) == 8 * byte_index

varint_shift(byte_index) == 7 * byte_index

\* lines 17-24: the loop test and one iteration; stream.read(1)[0] raises
\* IndexError at the end of the stream
VarintIter(s) ==
    IF ~(~s.is_last_byte /\ s.byte_index < s.max_bytes)
    THEN [s EXCEPT !.pc = "return"]
    ELSE IF s.pos >= Len(s.buf)
    THEN [s EXCEPT !.pc = "raised"]
    ELSE LET byte == s.buf[s.pos + 1] IN
         [s EXCEPT !.pos = s.pos + 1,
                   !.is_last_byte = (byte \div 128) % 2 = 0,
                   !.retval = Add(s.retval,
                                  ShiftLeft(BitsOf(byte % 128), varint_shift(s.byte_index))),
                   !.byte_index = s.byte_index + 1]

RECURSIVE VarintRun(_)
VarintRun(s) == IF s.pc = "loop" THEN VarintRun(VarintIter(s)) ELSE s

\* line 26, or the IndexError of line 18
VarintResult(s) ==
    IF s.pc = "return"
    THEN [ok |-> TRUE, val |-> s.retval, pos |-> s.pos]
    ELSE [ok |-> FALSE, err |-> "index out of range"]

wide_read_varint(buf, pos, max_bytes) ==
    Apply(VarintResult, VarintRun(VarintStart(buf, pos, max_bytes)))

wide_read_varint32(buf, pos) == wide_read_varint(buf, pos, 5)

wide_read_varint64(buf, pos) == wide_read_varint(buf, pos, 10)

\* the little-endian base-128 encoding of an integer: seven bits per byte,
\* the top bit set on every byte but the last
RECURSIVE EncodeVarintWide(_)
EncodeVarintWide(n) ==
    IF Len(n) <= 7 THEN <<NatOf(n)>>
    ELSE <<128 + NatOf(SubSeq(n, 1, 7))>> \o EncodeVarintWide(ShiftRight(n, 7))

\* bytes that follow an encoding in an enumerated stream
VarintTails == {<<>>, <<0>>, <<255, 1>>}

\* streams that are k continuation bytes followed by at most one last byte
ContStreams ==
    {[i \in 1..k |-> c] \o rest :
        k \in 0..MaxCont, c \in {128, 129, 255}, rest \in {<<>>, <<0>>, <<127>>}}

InitVarint ==
    /\ \/ \E n \in Words : \E tail \in VarintTails :
             inp = [kind |-> "encoded", n |-> n, max_bytes |-> 10,
                    buf |-> EncodeVarintWide(n) \o tail]
       \/ \E buf \in ContStreams : \E max_bytes \in {5, 10} :
             inp = [kind |-> "raw", n |-> <<>>, max_bytes |-> max_bytes, buf |-> buf]
    /\ ut = VarintStart(inp.buf, 0, inp.max_bytes)
    /\ ret = NoReturn
    /\ rd = Idle /\ le = Idle /\ mf = Idle /\ db = Idle /\ idb = Idle /\ tb = Idle

VarintLoop ==
    /\ ut.pc = "loop"
    /\ ut' = VarintIter(ut)
    /\ UNCHANGED <<inp, ret, rd, le, mf, db, idb, tb>>

VarintReturn ==
    /\ ut.pc = "return"
    /\ ut' = [ut EXCEPT !.pc = "returned"]
    /\ ret' = [returned |-> TRUE] @@ VarintResult(ut)
    /\ UNCHANGED <<inp, rd, le, mf, db, idb, tb>>

VarintRaise ==
    /\ ut.pc = "raised"
    /\ ut' = [ut EXCEPT !.pc = "failed"]
    /\ ret' = [returned |-> TRUE] @@ VarintResult(ut)
    /\ UNCHANGED <<inp, rd, le, mf, db, idb, tb>>

NextVarint == VarintLoop \/ VarintReturn \/ VarintRaise

SpecVarint == InitVarint /\ [][NextVarint]_vars

\* the length of the encoding of the enumerated integer
EncodedLen == Len(EncodeVarintWide(inp.n))

\* C12: for every n in [0, 2^64) the base-128 encoding of n has at most 10
\* bytes, and read_varint64 on it returns n and consumes exactly the
\* encoded bytes.
C12_VarintRoundTrip ==
    inp.kind = "encoded" =>
        /\ EncodedLen <= 10
        /\ ret.returned =>
              /\ ret.ok
              /\ ret.val = inp.n
              /\ ret.pos = EncodedLen

\* a ten-byte encoding followed by more bytes has been decoded
C12_Witness ==
    /\ inp.kind = "encoded"
    /\ ret.returned
    /\ EncodedLen = 10
    /\ Len(inp.buf) > 10
    /\ ret.ok /\ ret.val = inp.n /\ Len(inp.n) = WordBits

\* the first max_bytes bytes of the stream all have their top bit set
AllContinuation ==
    /\ Len(inp.buf) >= inp.max_bytes
    /\ \A i \in 1..inp.max_bytes : inp.buf[i] >= 128

\* C13: read_varint(stream, max_bytes) fails when the first max_bytes bytes
\* all have their top bit set; it never returns a value in that case.
C13_OverlongFails ==
    ret.returned /\ AllContinuation => ~ret.ok

---------------------------------------------------------------------------
(* read_sint32 (leveldb/util.py:37-44).  A Python int that may be negative  *)
(* is its two's complement: the low bits, and the bit ext that repeats     *)
(* above them for ever.                                                    *)

SInt(bits) == [bits |-> bits, ext |-> 0]

SBitAt(x, i) == IF i < Len(x.bits) THEN x.bits[i + 1] ELSE x.ext

RECURSIVE SNorm(_)
SNorm(x) ==
    IF x.bits = <<>> \/ x.bits[Len(x.bits)] # x.ext THEN x
    ELSE SNorm([x EXCEPT !.bits = SubSeq(x.bits, 1, Len(x.bits) - 1)])

\* a & b of two integers that are not negative
And(a, b) == Norm([i \in 1..Min(Len(a), Len(b)) |-> a[i] * b[i]])

\* a ^ b
SXor(a, b) ==
    SNorm([bits |-> [i \in 1..Max(Len(a.bits), Len(b.bits)) |->
                        (SBitAt(a, i - 1) + SBitAt(b, i - 1)) % 2],
           ext |-> (a.ext + b.ext) % 2])

\* -a of an integer that is not negative: the complement of the bits, plus 1
SNeg(a) ==
    IF a = <<>> THEN SInt(<<>>)
    ELSE SNorm([bits |-> SubSeq(AddCarry([i \in 1..Len(a) |-> 1 - a[i]], <<1>>, 0, 0),
                                1, Len(a)),
                ext |-> 1])

\* 0xFFFFFFFF
Mask32 == [i \in 1..32 |-> 1]

\* line 43, the right operand of ^ : -(n & 1)
zigzag_sign_unnegated(n) == SInt(And(n, <<1>>))

zigzag_sign(n) == SNeg(And(n, <<1>>))

\* line 43
zigzag_decode(n) == SXor(SInt(ShiftRight(And(n, Mask32), 1)), zigzag_sign(n))

read_sint32(buf, pos) ==
    LET n == wide_read_varint32(buf, pos) IN
    IF ~n.ok THEN n
    ELSE [ok |-> TRUE, val |-> zigzag_decode(n.val), pos |-> n.pos]

\* the signed value of a 32-bit two's complement pattern w
Signed32(w) == SNorm([bits |-> [i \in 1..31 |-> BitAt(w, i - 1)], ext |-> BitAt(w, 31)])

\* the 32-bit zigzag encoding (n << 1) ^ (n >> 31) of the value of w
ZigZag32(w) ==
    Norm([i \in 1..32 |->
            IF i = 1 THEN BitAt(w, 31) ELSE (BitAt(w, i - 2) + BitAt(w, 31)) % 2])

InitSint ==
    /\ \E w \in WordsOf(32) :
          inp = [w |-> w, n |-> Signed32(w), buf |-> EncodeVarintWide(ZigZag32(w))]
    /\ ut = [pc |-> "read_varint32"]
    /\ ret = NoReturn
    /\ rd = Idle /\ le = Idle /\ mf = Idle /\ db = Idle /\ idb = Idle /\ tb = Idle

\* line 42
SintVarint ==
    /\ ut.pc = "read_varint32"
    /\ LET n == wide_read_varint32(inp.buf, 0) IN
          ut' = [pc |-> IF n.ok THEN "decode" ELSE "raised", n |-> n]
    /\ UNCHANGED <<inp, ret, rd, le, mf, db, idb, tb>>

\* lines 43-44
SintDecode ==
    /\ ut.pc = "decode"
    /\ ut' = [ut EXCEPT !.pc = "returned"]
    /\ ret' = [returned |-> TRUE, ok |-> TRUE, val |-> zigzag_decode(ut.n.val),
               pos |-> ut.n.pos]
    /\ UNCHANGED <<inp, rd, le, mf, db, idb, tb>>

NextSint == SintVarint \/ SintDecode

SpecSint == InitSint /\ [][NextSint]_vars

\* C14: for every n in [-2^31, 2^31), read_sint32 applied to the varint32
\* encoding of the 32-bit zigzag encoding of n returns n.
C14_ZigZagRoundTrip ==
    /\ ut.pc # "raised"
    /\ ret.returned => ret.ok /\ ret.val = inp.n /\ ret.pos = Len(inp.buf)

\* a negative number whose zigzag encoding takes five bytes has been decoded
C14_Witness ==
    /\ ret.returned /\ ret.ok
    /\ inp.n.ext = 1
    /\ Len(inp.buf) = 5
    /\ ret.val = inp.n

---------------------------------------------------------------------------
(* unmask_leveldb_crc32c (leveldb/util.py:54-65).                          *)

\* a + b of two integers of either sign, in two's complement
SAdd(a, b) ==
    LET w == Max(Len(a.bits), Len(b.bits)) + 2
        sum == AddCarry([i \in 1..w |-> SBitAt(a, i - 1)],
                        [i \in 1..w |-> SBitAt(b, i - 1)], 0, 0)
    IN SNorm([bits |-> SubSeq(sum, 1, w - 1), ext |-> sum[w]])

\* a & mask, the mask not negative
SAnd(a, mask) == Norm([i \in 1..Len(mask) |-> SBitAt(a, i - 1) * mask[i]])

\* a | b of two integers that are not negative
Or(a, b) ==
    Norm([i \in 1..Max(Len(a), Len(b)) |-> Max(BitAt(a, i - 1), BitAt(b, i - 1))])

\* line 60: 0xA282EAD8
kMaskDelta == int_from_bytes(<<216, 234, 130, 162>>)

\* line 61
UINT_MAX == Mask32

\* line 62
unmask_subtract(masked) == SAdd(SInt(masked), SNeg(kMaskDelta))

\* line 63
unmask_wrap(val) == SAnd(SAdd(SAdd(val, SInt(UINT_MAX)), SInt(<<1>>)), UINT_MAX)

\* line 64, with the two shift counts exchanged
unmask_rotate_15(val) == And(Or(ShiftRight(val, 15), ShiftLeft(val, 17)), UINT_MAX)

\* line 64
unmask_rotate(val) == And(Or(ShiftRight(val, 17), ShiftLeft(val, 15)), UINT_MAX)

unmask_leveldb_crc32c(masked) == unmask_rotate(unmask_wrap(unmask_subtract(masked)))

\* the enumerated 32-bit values: the words, and the values around kMaskDelta
MaskedValues ==
    WordsOf(32) \cup {kMaskDelta, Add(kMaskDelta, <<1>>),
                      int_from_bytes(<<215, 234, 130, 162>>)}

InitUnmask ==
    /\ \E masked \in MaskedValues : inp = [masked |-> masked]
    /\ ut = [pc |-> "subtract"]
    /\ ret = NoReturn
    /\ rd = Idle /\ le = Idle /\ mf = Idle /\ db = Idle /\ idb = Idle /\ tb = Idle

UnmaskSubtract ==
    /\ ut.pc = "subtract"
    /\ ut' = [pc |-> "wrap", val |-> unmask_subtract(inp.masked)]
    /\ UNCHANGED <<inp, ret, rd, le, mf, db, idb, tb>>

UnmaskWrap ==
    /\ ut.pc = "wrap"
    /\ ut' = [pc |-> "rotate", val |-> unmask_wrap(ut.val)]
    /\ UNCHANGED <<inp, ret, rd, le, mf, db, idb, tb>>

UnmaskRotate ==
    /\ ut.pc = "rotate"
    /\ ut' = [pc |-> "returned", val |-> unmask_rotate(ut.val)]
    /\ ret' = [returned |-> TRUE, val |-> unmask_rotate(ut.val)]
    /\ UNCHANGED <<inp, rd, le, mf, db, idb, tb>>

NextUnmask == UnmaskSubtract \/ UnmaskWrap \/ UnmaskRotate

SpecUnmask == InitUnmask /\ [][NextUnmask]_vars

\* the 32 bits of v rotated right by k
RotateRight32(v, k) == Norm([i \in 1..32 |-> BitAt(v, (i - 1 + k) % 32)])

\* (a + b) mod 2^32
AddMod32(a, b) == Norm(SubSeq(AddCarry(a, b, 0, 0) \o [i \in 1..32 |-> 0], 1, 32))

\* 2^32 - 0xA282EAD8 = 0x5D7D1528
MinusDelta == int_from_bytes(<<40, 21, 125, 93>>)

\* the mask of LevelDB: rotate right by 15, then add 0xA282EAD8 mod 2^32
LevelDBMask(crc) == AddMod32(RotateRight32(crc, 15), kMaskDelta)

\* C15: for every x in [0, 2^32), unmask_leveldb_crc32c(x) equals
\* rotate_right_32((x - 0xA282EAD8) mod 2^32, 17), lies in [0, 2^32), and the
\* LevelDB mask applied to it gives x back.
C15_UnmaskInvertsMask ==
    ret.returned =>
        /\ ret.val = RotateRight32(AddMod32(inp.masked, MinusDelta), 17)
        /\ Len(ret.val) <= 32
        /\ LevelDBMask(ret.val) = inp.masked

\* a value below 0xA282EAD8, where the subtraction of line 62 is negative,
\* has been unmasked
C15_Witness ==
    /\ ret.returned
    /\ Len(inp.masked) = 31
    /\ ret.val # <<>>
    /\ LevelDBMask(ret.val) = inp.masked

---------------------------------------------------------------------------
(* The two checksum verifications: __get_record (log_reader.py:21-37) and  *)
(* Block.__init__ (table_reader.py:89-101), each on one stored unit.       *)

\* the payloads: the contents of a block of at most one entry
ChecksumPayloads ==
    {BuildBlock(TableItems(S), 1) :
        S \in {{}} \cup {{[kind |-> op.kind, key |-> op.key, val |-> op.val, sequence |-> 1]} :
                            op \in HistoryOps}}

\* the stored checksum, after unmasking: of the payload then the type byte,
\* of the type byte then the payload, or of something else
StoredChecksum(payload, type, stored) ==
    IF stored = "payload_type" THEN crc32c_crc(payload \o <<type>>)
    ELSE IF stored = "type_payload" THEN crc32c_crc(<<type>> \o payload)
    ELSE crc32c_crc(payload \o <<type>> \o <<0>>)

\* a record-log block that holds the one physical record
ChecksumLog(in) ==
    <<[at |-> 0, type |-> in.type, data |-> in.payload,
       checksum |-> StoredChecksum(in.payload, in.type, in.stored), pad |-> 0]>>

\* a table file that holds the one block and its trailer
ChecksumTable(in) ==
    [bytes |-> in.payload \o <<in.type, 0, 0, 0, 0>>,
     crcs |-> DictSet(EmptyDict, Len(in.payload) + 1,
                      StoredChecksum(in.payload, in.type, in.stored))]

InitChecksum ==
    /\ \E payload \in ChecksumPayloads : \E type \in 0..4 :
       \E stored \in {"payload_type", "type_payload", "other"} :
       \E reader \in {"log", "table"} :
          inp = [payload |-> payload, type |-> type, stored |-> stored, reader |-> reader]
    /\ ut = [pc |-> "verify"]
    /\ ret = NoReturn
    /\ rd = Idle /\ le = Idle /\ mf = Idle /\ db = Idle /\ idb = Idle /\ tb = Idle

\* __get_record on the block stream
ChecksumRecord ==
    /\ ut.pc = "verify" /\ inp.reader = "log"
    /\ ut' = [pc |-> "returned"]
    /\ ret' = [returned |-> TRUE]
                 @@ get_record(ChecksumLog(inp), 0, FileLen(ChecksumLog(inp)))
    /\ UNCHANGED <<inp, rd, le, mf, db, idb, tb>>

\* Block(handle, stream, False)
ChecksumBlock ==
    /\ ut.pc = "verify" /\ inp.reader = "table"
    /\ ut' = [pc |-> "returned"]
    /\ ret' = [returned |-> TRUE]
                 @@ Block(ChecksumTable(inp), [offset |-> 0, size |-> Len(inp.payload)], FALSE)
    /\ UNCHANGED <<inp, rd, le, mf, db, idb, tb>>

NextChecksum == ChecksumRecord \/ ChecksumBlock

SpecChecksum == InitChecksum /\ [][NextChecksum]_vars

\* the decode failed on the checksum
ChecksumMismatch == ~ret.ok /\ ret.err = "block checksum mismatch"

\* the stored checksum, after unmasking
Stored == StoredChecksum(inp.payload, inp.type, inp.stored)

---------------------------------------------------------------------------
(* indexeddb.py: IDBKey.                                                   *)

\* a & b and a | b of two small natural numbers
BitAnd(a, b) == NatOf(And(BitsOf(a), BitsOf(b)))
BitOr(a, b) == NatOf(Or(BitsOf(a), BitsOf(b)))

\* an integer used as a byte count: every count above 2^24 is beyond the end
\* of any stream of the model, as 2^24 is
CountOf(n) == IF Len(n) > 24 THEN Pow2(24) ELSE NatOf(n)

\* bytes.decode('utf-16be') / ('utf-16le'): the 16-bit code units.  A unit in
\* D800..DFFF is a surrogate and raises UnicodeDecodeError unless it is paired;
\* pairs do not occur in the streams of the model.
RECURSIVE utf16_units(_, _)
utf16_units(bytes, big_endian) ==
    IF bytes = <<>> THEN [ok |-> TRUE, units |-> <<>>]
    ELSE IF Len(bytes) = 1 THEN [ok |-> FALSE, err |-> "truncated data"]
    ELSE LET unit == IF big_endian THEN bytes[1] * 256 + bytes[2]
                     ELSE bytes[2] * 256 + bytes[1]
             rest == utf16_units(SubSeq(bytes, 3, Len(bytes)), big_endian)
         IN IF unit >= 55296 /\ unit <= 57343 THEN [ok |-> FALSE, err |-> "illegal encoding"]
            ELSE IF ~rest.ok THEN rest
            ELSE [ok |-> TRUE, units |-> <<unit>> \o rest.units]

\* IDBKey.__parse_key, lines 64-91.  The value is tagged with its Python type.
RECURSIVE parse_key(_, _)
RECURSIVE parse_key_array(_, _, _, _)
parse_key(buf, pos) ==
    LET t == read_safe(buf, pos, 1) IN
    IF ~t.ok THEN t
    ELSE LET tag == t.bytes[1] IN
    IF tag = 0 THEN [ok |-> FALSE, err |-> "unexpected null key"]
    ELSE IF tag = 3
    THEN LET b == read_safe(buf, t.pos, 8) IN
         IF ~b.ok THEN b
         ELSE [ok |-> TRUE, val |-> [type |-> "float", bytes |-> b.bytes], pos |-> b.pos]
    ELSE IF tag = 2 THEN [ok |-> FALSE, err |-> "date type not implemented"]
    ELSE IF tag = 1
    THEN LET s_len == wide_read_varint64(buf, t.pos) IN
         IF ~s_len.ok THEN s_len
         ELSE LET s == read_safe(buf, s_len.pos, CountOf(s_len.val) * 2) IN
              IF ~s.ok THEN s
              ELSE LET u == utf16_units(s.bytes, TRUE) IN
                   IF ~u.ok THEN u
                   ELSE [ok |-> TRUE, val |-> [type |-> "str", units |-> u.units],
                         pos |-> s.pos]
    ELSE IF tag = 6
    THEN LET bin_len == wide_read_varint64(buf, t.pos) IN
         IF ~bin_len.ok THEN bin_len
         ELSE LET b == read_safe(buf, bin_len.pos, CountOf(bin_len.val)) IN
              IF ~b.ok THEN b
              ELSE [ok |-> TRUE, val |-> [type |-> "bytes", bytes |-> b.bytes], pos |-> b.pos]
    ELSE IF tag = 4
    THEN LET arr_len == wide_read_varint64(buf, t.pos) IN
         IF ~arr_len.ok THEN arr_len
         ELSE parse_key_array(buf, arr_len.pos, CountOf(arr_len.val), <<>>)
    ELSE [ok |-> FALSE, err |-> "unknown primitive type"]

\* lines 86-87: the loop over range(arr_len)
parse_key_array(buf, pos, left, items) ==
    IF left = 0 THEN [ok |-> TRUE, val |-> [type |-> "list", items |-> items], pos |-> pos]
    ELSE LET k == parse_key(buf, pos) IN
         IF ~k.ok THEN k
         ELSE parse_key_array(buf, k.pos, left - 1, Append(items, k.val))

\* lines 52-54 as Python parses them: >> binds tighter than &, so each mask
\* is shifted, not the byte
db_id_len_of(first_byte) == BitAnd(first_byte, 224 \div Pow2(5)) + 1
obj_store_id_len_of(first_byte) == BitAnd(first_byte, 28 \div Pow2(2)) + 1
index_id_len_of(first_byte) == BitAnd(first_byte, 3 \div Pow2(0)) + 1

\* IDBKey.__init__, lines 47-62
IDBKey(ldb_key) ==
    LET f == read_safe(ldb_key, 0, 1) IN
    IF ~f.ok THEN f
    ELSE
    LET first_byte == f.bytes[1]
        db_id_len == db_id_len_of(first_byte)
        obj_store_id_len == obj_store_id_len_of(first_byte)
        index_id_len == index_id_len_of(first_byte)
        d == read_safe(ldb_key, f.pos, db_id_len)
        s == IF d.ok THEN read_safe(ldb_key, d.pos, obj_store_id_len) ELSE d
        i == IF s.ok THEN read_safe(ldb_key, s.pos, index_id_len) ELSE s
        k == IF i.ok THEN parse_key(ldb_key, i.pos) ELSE i
    IN
    IF ~k.ok THEN k
    ELSE IF bytes_left(ldb_key, k.pos) # 0
    THEN [ok |-> FALSE, err |-> "unexpected trailing data"]
    ELSE [ok |-> TRUE,
          db_id_len |-> db_id_len, obj_store_id_len |-> obj_store_id_len,
          index_id_len |-> index_id_len,
          db_id |-> int_from_bytes(d.bytes), obj_store_id |-> int_from_bytes(s.bytes),
          index_id |-> int_from_bytes(i.bytes), key |-> k.val]

\* IDBKey.encode_key_prefix, lines 93-109.  The ids of the model are never
\* negative.  A length of 0 makes (len - 1) << k negative, and so first_byte,
\* on which bytes([first_byte]) raises ValueError.
encode_key_prefix(db_id, obj_store_id, idx_id) ==
    LET db_id_bytes == int64_to_bytes_compact(db_id)
        obj_store_id_bytes == int64_to_bytes_compact(obj_store_id)
        idx_id_bytes == int64_to_bytes_compact(idx_id)
    IN
    IF ~db_id_bytes.ok THEN db_id_bytes
    ELSE IF ~obj_store_id_bytes.ok THEN obj_store_id_bytes
    ELSE IF ~idx_id_bytes.ok THEN idx_id_bytes
    ELSE IF Len(db_id_bytes.bytes) = 0 \/ Len(obj_store_id_bytes.bytes) = 0
            \/ Len(idx_id_bytes.bytes) = 0
    THEN [ok |-> FALSE, err |-> "bytes must be in range(0, 256)"]
    ELSE LET first_byte ==
                 BitOr(BitOr(BitOr(0, (Len(db_id_bytes.bytes) - 1) * Pow2(5)),
                             (Len(obj_store_id_bytes.bytes) - 1) * Pow2(2)),
                       (Len(idx_id_bytes.bytes) - 1) * Pow2(0))
         IN [ok |-> TRUE,
             bytes |-> <<first_byte>> \o db_id_bytes.bytes \o obj_store_id_bytes.bytes
                          \o idx_id_bytes.bytes]

\* the enumerated ids: 0, 1, 2, 255, 256, 2^16, 2^32 and 2^56
IdValues ==
    {<<>>, <<1>>, <<0, 1>>, [i \in 1..8 |-> 1], ShiftLeft(<<1>>, 8), ShiftLeft(<<1>>, 16),
     ShiftLeft(<<1>>, 32), ShiftLeft(<<1>>, 56)}

\* well-formed key tails: a number, the string "a", two bytes, an array of a
\* string and an empty array
KeyTails ==
    {<<3, 0, 0, 0, 0, 0, 0, 240, 63>>, <<1, 1, 0, 97>>, <<6, 2, 7, 0>>,
     <<4, 2, 1, 1, 0, 97, 4, 0>>}

InitIDBKey ==
    /\ \E db_id \in IdValues : \E store_id \in IdValues : \E index_id \in IdValues :
       \E tail \in KeyTails :
          inp = [db_id |-> db_id, store_id |-> store_id, index_id |-> index_id,
                 tail |-> tail]
    /\ idb = [pc |-> "encode"]
    /\ ret = NoReturn
    /\ rd = Idle /\ le = Idle /\ mf = Idle /\ db = Idle /\ ut = Idle /\ tb = Idle

\* encode_key_prefix(db_id, store_id, index_id)
KeyEncode ==
    /\ idb.pc = "encode"
    /\ LET p == encode_key_prefix(inp.db_id, inp.store_id, inp.index_id) IN
          IF p.ok
          THEN /\ idb' = [pc |-> "decode", ldb_key |-> p.bytes \o inp.tail]
               /\ ret' = ret
          ELSE /\ idb' = [pc |-> "raised"]
               /\ ret' = [returned |-> TRUE, ok |-> FALSE, err |-> p.err]
    /\ UNCHANGED <<inp, rd, le, mf, db, ut, tb>>

\* IDBKey(ldb_key)
KeyDecode ==
    /\ idb.pc = "decode"
    /\ idb' = [idb EXCEPT !.pc = "returned"]
    /\ ret' = [returned |-> TRUE] @@ IDBKey(idb.ldb_key)
    /\ UNCHANGED <<inp, rd, le, mf, db, ut, tb>>

NextIDBKey == KeyEncode \/ KeyDecode

SpecIDBKey == InitIDBKey /\ [][NextIDBKey]_vars

\* C17: for all db_id, store_id, index_id in [0, 2^64), IDBKey applied to
\* encode_key_prefix(db_id, store_id, index_id) followed by a well-formed key
\* tail decodes the three ids that were encoded, the three id widths being
\* read from the first byte b as ((b >> 5) & 7) + 1, ((b >> 2) & 7) + 1 and
\* (b & 3) + 1.
C17_KeyPrefixRoundTrip ==
    ret.returned =>
        /\ ret.ok
        /\ ret.db_id = inp.db_id
        /\ ret.obj_store_id = inp.store_id
        /\ ret.index_id = inp.index_id
        /\ ret.db_id_len = BitAnd(idb.ldb_key[1] \div Pow2(5), 7) + 1
        /\ ret.obj_store_id_len = BitAnd(idb.ldb_key[1] \div Pow2(2), 7) + 1
        /\ ret.index_id_len = BitAnd(idb.ldb_key[1], 3) + 1

---------------------------------------------------------------------------
(* indexeddb.py: IDBValue.  A decoded value is a record tagged with its    *)
(* Python type: str (units), int (n, in two's complement), float (bytes),  *)
(* bool (b), NoneType, dict (items, the (key, value) pairs in insertion    *)
(* order), list (elems), tuple (key, val) and EndMarker (count).           *)

PyStr(units) == [type |-> "str", units |-> units]
PyInt(n) == [type |-> "int", n |-> n]
PyFloat(bytes) == [type |-> "float", bytes |-> bytes]
PyBool(b) == [type |-> "bool", b |-> b]
PyNone == [type |-> "NoneType"]
PyDict(items) == [type |-> "dict", items |-> items]
PyList(elems) == [type |-> "list", elems |-> elems]
PyTuple(key, val) == [type |-> "tuple", key |-> key, val |-> val]
EndMarker(count) == [type |-> "EndMarker", count |-> count]

\* struct.unpack('d', buf) as far as hashing needs it: whether the double is
\* a whole number, and which.  The byte order of 'd' is the machine's; it is
\* taken as little-endian.
float_whole(bytes) ==
    LET bits == [i \in 1..64 |-> (bytes[((i - 1) \div 8) + 1] \div Pow2((i - 1) % 8)) % 2]
        mant == SubSeq(bits, 1, 52)
        e == NatOf(SubSeq(bits, 53, 63))
        sig == mant \o <<1>>
        mag == IF e - 1023 >= 52 THEN ShiftLeft(sig, e - 1023 - 52)
               ELSE Norm(ShiftRight(sig, 52 - (e - 1023)))
    IN
    IF e = 2047 THEN [whole |-> FALSE, nan |-> Norm(mant) # <<>>]
    ELSE IF e = 0 THEN [whole |-> Norm(mant) = <<>>, nan |-> FALSE, n |-> SInt(<<>>)]
    ELSE IF e < 1023 THEN [whole |-> FALSE, nan |-> FALSE]
    ELSE IF e - 1023 < 52 /\ Norm(SubSeq(sig, 1, 52 - (e - 1023))) # <<>>
    THEN [whole |-> FALSE, nan |-> FALSE]
    ELSE [whole |-> TRUE, nan |-> FALSE, n |-> IF bits[64] = 1 THEN SNeg(mag) ELSE SInt(mag)]

\* what a dict compares of a key, by hash and ==: True is 1, 1.0 is 1, a NaN
\* is equal to itself only (at is the stream position it was read at), and a
\* dict or a list cannot be hashed
HashKey(v, at) ==
    IF v.type \in {"dict", "list"} THEN [ok |-> FALSE, err |-> "unhashable type"]
    ELSE IF v.type = "int" THEN [ok |-> TRUE, key |-> [num |-> v.n]]
    ELSE IF v.type = "bool"
    THEN [ok |-> TRUE, key |-> [num |-> SInt(IF v.b THEN <<1>> ELSE <<>>)]]
    ELSE IF v.type = "float"
    THEN LET f == float_whole(v.bytes) IN
         IF f.whole THEN [ok |-> TRUE, key |-> [num |-> f.n]]
         ELSE IF f.nan THEN [ok |-> TRUE, key |-> [nan |-> at]]
         ELSE [ok |-> TRUE, key |-> v]
    ELSE [ok |-> TRUE, key |-> v]

\* obj[key] = val that puts a new key first
ObjSetFront(items, hkey, key, val) ==
    IF \E i \in 1..Len(items) : items[i][1] = hkey
    THEN [i \in 1..Len(items) |->
            IF items[i][1] = hkey THEN <<hkey, items[i][2], val>> ELSE items[i]]
    ELSE <<<<hkey, key, val>>>> \o items

\* obj[key] = val on the items of a dict, each item <<hash key, key, value>>:
\* the value of an existing key is replaced, a new key goes last
ObjSet(items, hkey, key, val) ==
    IF \E i \in 1..Len(items) : items[i][1] = hkey
    THEN [i \in 1..Len(items) |->
            IF items[i][1] = hkey THEN <<hkey, items[i][2], val>> ELSE items[i]]
    ELSE Append(items, <<hkey, key, val>>)

\* bytes.decode('ascii', 'replace'): U+FFFD for every byte above 127
ascii_replace(bytes) ==
    [i \in 1..Len(bytes) |-> IF bytes[i] < 128 THEN bytes[i] ELSE 65533]

\* the result of a read that succeeded, widened by the read value
Value(val, pos) == [ok |-> TRUE, val |-> val, pos |-> pos]

\* IDBValue.v8_deserizlize, lines 144-217
RECURSIVE v8_deserizlize(_, _)
RECURSIVE object_loop(_, _, _)
RECURSIVE sparse_loop(_, _, _, _)
RECURSIVE dense_elements(_, _, _, _, _)
RECURSIVE dense_properties(_, _, _, _, _)
v8_deserizlize(buf, pos) ==
    LET t == read_safe(buf, pos, 1) IN
    IF ~t.ok THEN t
    ELSE LET tag == t.bytes[1] IN
    IF tag = 0 THEN v8_deserizlize(buf, t.pos)
    ELSE IF tag = 111 THEN object_loop(buf, t.pos, <<>>)
    ELSE IF tag \in {123, 64, 36}
    THEN LET count == wide_read_varint64(buf, t.pos) IN
         IF ~count.ok THEN count ELSE Value(EndMarker(count.val), count.pos)
    ELSE IF tag = 34
    THEN LET str_len == wide_read_varint32(buf, t.pos) IN
         IF ~str_len.ok THEN str_len
         ELSE LET str_val == read_safe(buf, str_len.pos, CountOf(str_len.val)) IN
              IF ~str_val.ok THEN str_val
              ELSE Value(PyStr(ascii_replace(str_val.bytes)), str_val.pos)
    ELSE IF tag = 99
    THEN LET str_len == wide_read_varint64(buf, t.pos) IN
         IF ~str_len.ok THEN str_len
         ELSE LET str_val == read_safe(buf, str_len.pos, CountOf(str_len.val)) IN
              IF ~str_val.ok THEN str_val
              ELSE LET u == utf16_units(str_val.bytes, FALSE) IN
                   IF ~u.ok THEN u ELSE Value(PyStr(u.units), str_val.pos)
    ELSE IF tag = 73
    THEN LET n == read_sint32(buf, t.pos) IN
         IF ~n.ok THEN n ELSE Value(PyInt(n.val), n.pos)
    ELSE IF tag = 78
    THEN LET b == read_safe(buf, t.pos, 8) IN
         IF ~b.ok THEN b ELSE Value(PyFloat(b.bytes), b.pos)
    ELSE IF tag = 97
    THEN LET arr_len1 == wide_read_varint32(buf, t.pos) IN
         IF ~arr_len1.ok THEN arr_len1
         ELSE sparse_loop(buf, arr_len1.pos, arr_len1.val, <<>>)
    ELSE IF tag = 65
    THEN LET arr_len1 == wide_read_varint32(buf, t.pos) IN
         IF ~arr_len1.ok THEN arr_len1
         ELSE dense_elements(buf, arr_len1.pos, arr_len1.val, CountOf(arr_len1.val), <<>>)
    ELSE IF tag \in {95, 48} THEN Value(PyNone, t.pos)
    ELSE IF tag = 84 THEN Value(PyBool(TRUE), t.pos)
    ELSE IF tag = 70 THEN Value(PyBool(FALSE), t.pos)
    ELSE [ok |-> FALSE, err |-> "unknown tag"]

\* lines 153-159
object_loop(buf, pos, obj) ==
    LET key == v8_deserizlize(buf, pos) IN
    IF ~key.ok THEN key
    ELSE IF key.val.type = "EndMarker"
    THEN IF BitsOf(Len(obj)) # key.val.count
         THEN [ok |-> FALSE, err |-> "obj has other properties than expected"]
         ELSE Value(PyDict([i \in 1..Len(obj) |-> <<obj[i][2], obj[i][3]>>]), key.pos)
    ELSE LET val == v8_deserizlize(buf, key.pos) IN
         IF ~val.ok THEN val
         ELSE LET h == HashKey(key.val, pos) IN
              IF ~h.ok THEN h
              ELSE object_loop(buf, val.pos, ObjSet(obj, h.key, key.val, val.val))

\* the end of both arrays, lines 189-191 and 205-207
array_end(buf, pos, arr_len1, arr) ==
    LET arr_len2 == wide_read_varint32(buf, pos) IN
    IF ~arr_len2.ok THEN arr_len2
    ELSE IF arr_len1 # arr_len2.val THEN [ok |-> FALSE, err |-> "array length mismatch"]
    ELSE Value(PyList(arr), arr_len2.pos)

\* lines 185-193
sparse_loop(buf, pos, arr_len1, arr) ==
    LET key == v8_deserizlize(buf, pos) IN
    IF ~key.ok THEN key
    ELSE IF key.val.type = "EndMarker"
    THEN IF BitsOf(Len(arr)) # key.val.count
         THEN [ok |-> FALSE, err |-> "arr has other properties than expected"]
         ELSE array_end(buf, key.pos, arr_len1, arr)
    ELSE LET val == v8_deserizlize(buf, key.pos) IN
         IF ~val.ok THEN val
         ELSE sparse_loop(buf, val.pos, arr_len1, Append(arr, PyTuple(key.val, val.val)))

\* lines 197-199
dense_elements(buf, pos, arr_len1, left, arr) ==
    IF left = 0 THEN dense_properties(buf, pos, arr_len1, 0, arr)
    ELSE LET val == v8_deserizlize(buf, pos) IN
         IF ~val.ok THEN val
         ELSE dense_elements(buf, val.pos, arr_len1, left - 1, Append(arr, val.val))

\* lines 200-210
dense_properties(buf, pos, arr_len1, property_count, arr) ==
    LET key == v8_deserizlize(buf, pos) IN
    IF ~key.ok THEN key
    ELSE IF key.val.type = "EndMarker"
    THEN IF BitsOf(property_count) # key.val.count
         THEN [ok |-> FALSE, err |-> "arr has other properties than expected"]
         ELSE array_end(buf, key.pos, arr_len1, arr)
    ELSE LET val == v8_deserizlize(buf, key.pos) IN
         IF ~val.ok THEN val
         ELSE dense_properties(buf, val.pos, arr_len1, property_count + 1,
                               Append(arr, PyTuple(key.val, val.val)))

\* IDBValue.__init__, lines 124-131: the version and the wrap header
ValueHeader(value) ==
    LET db_version == wide_read_varint64(value, 0) IN
    IF ~db_version.ok THEN db_version
    ELSE LET header == stream_read(value, db_version.pos, 2) IN
         IF Len(header.bytes) # 2 \/ header.bytes[1] # 255 \/ header.bytes[2] < 17
         THEN [ok |-> FALSE, err |-> "doesn't look like an IDB serialized value"]
         ELSE [ok |-> TRUE, pos |-> header.pos]

\* lines 132-137: the tag
ValueTag(value, pos) ==
    LET tag == read_safe(value, pos, 1) IN
    IF ~tag.ok THEN tag
    ELSE IF tag.bytes[1] = 1 THEN [ok |-> TRUE, blob |-> TRUE, pos |-> tag.pos]
    ELSE IF tag.bytes[1] # 255 THEN [ok |-> FALSE, err |-> "invalid tag"]
    ELSE [ok |-> TRUE, blob |-> FALSE, pos |-> tag.pos]

\* line 135: '<blob>'
Blob == PyStr(<<60, 98, 108, 111, 98, 62>>)

\* lines 140-142: the serialization version, the value, no trailing data
ValueBody(value, pos) ==
    LET v8_serialization_version == read_safe(value, pos, 1) IN
    IF ~v8_serialization_version.ok THEN v8_serialization_version
    ELSE LET v == v8_deserizlize(value, v8_serialization_version.pos) IN
         IF ~v.ok THEN v
         ELSE IF bytes_left(value, v.pos) # 0
         THEN [ok |-> FALSE, err |-> "unexpected trailing data"]
         ELSE [ok |-> TRUE, value |-> v.val]

IDBValue(value) ==
    LET h == ValueHeader(value) IN
    IF ~h.ok THEN h
    ELSE LET t == ValueTag(value, h.pos) IN
         IF ~t.ok THEN t
         ELSE IF t.blob THEN [ok |-> TRUE, value |-> Blob]
         ELSE ValueBody(value, t.pos)

---------------------------------------------------------------------------
(* The enumerated values of IDBValue.                                      *)

\* pairs in an enumerated object body
MaxPairs == 2
\* bytes in an enumerated body that is any string over BodyBytes
MaxBody == 3

\* varint64(db_version) = 1, the wrap header FF 11, the tag FF and the
\* serialization version 0D
Frame == <<1, 255, 17, 255, 13>>

\* the keys "a" and "b" and what they decode to
PairKeys ==
    {[bytes |-> <<34, 1, 97>>, val |-> PyStr(<<97>>)],
     [bytes |-> <<34, 1, 98>>, val |-> PyStr(<<98>>)]}

\* what follows a key: the values I 04 (2), I 01 (-1), T, "a" and the empty
\* object, and the end marker { 00, which is not the encoding of a value
PairVals ==
    {[bytes |-> <<73, 4>>, val |-> PyInt(SInt(<<0, 1>>)), is_value |-> TRUE],
     [bytes |-> <<73, 1>>, val |-> PyInt([bits |-> <<>>, ext |-> 1]), is_value |-> TRUE],
     [bytes |-> <<84>>, val |-> PyBool(TRUE), is_value |-> TRUE],
     [bytes |-> <<34, 1, 97>>, val |-> PyStr(<<97>>), is_value |-> TRUE],
     [bytes |-> <<111, 123, 0>>, val |-> PyDict(<<>>), is_value |-> TRUE],
     [bytes |-> <<123, 0>>, val |-> EndMarker(<<>>), is_value |-> FALSE]}

\* 'o', the pairs, '{' and the count
ObjectBody(pairs, count) ==
    <<111>> \o Concat([i \in 1..Len(pairs) |-> pairs[i].key.bytes \o pairs[i].val.bytes])
        \o <<123, count>>

\* the payload of the example, whose wrap header is FF 0D, and bodies that are
\* not one object of pairs: end markers at the top level and inside arrays,
\* arrays, a blob, trailing data
ExamplePayload == <<255, 15, 255, 13, 111, 34, 1, 97, 73, 4, 123, 1>>

OtherStreams ==
    {ExamplePayload,
     <<255, 15>> \o Frame \o <<111, 34, 1, 97, 73, 4, 123, 1>>,
     Frame \o <<123, 0>>,
     Frame \o <<36, 1>>,
     Frame \o <<65, 1, 123, 0, 36, 0, 1>>,
     Frame \o <<65, 0, 34, 1, 97, 123, 0, 36, 1, 0>>,
     Frame \o <<97, 0, 73, 0, 64, 2, 64, 1, 0>>,
     Frame \o <<65, 2, 73, 4, 84, 36, 0, 2>>,
     Frame \o <<97, 2, 73, 0, 84, 64, 1, 2>>,
     Frame \o <<65, 1, 73, 4, 36, 0, 2>>,
     Frame \o <<0, 0, 95>>,
     Frame \o <<84, 84>>,
     <<1, 255, 17, 1>>,
     <<1, 255, 17, 2>>,
     <<1, 255>>,
     <<128>>}

\* the bytes of the short bodies: o { " I T 00 01 and a
BodyBytes == {111, 123, 34, 73, 84, 0, 1, 97}

\* the tags that open a container, 'o' 'a' 'A', the three end markers
\* '{' '@' '$', and the one that the writer of a container closes it with
ContainerTags == {111, 97, 65}

EndMarkerTags == {123, 64, 36}

OwnEndMarker(open) == IF open = 111 THEN 123 ELSE IF open = 97 THEN 64 ELSE 36

\* a container of n properties "a": T closed by the marker close: the tag
\* (and the length 0 of an array), the properties, the marker, the count n
\* (and the length 0 of an array)
ContainerBody(open, n, close) ==
    <<open>> \o (IF open = 111 THEN <<>> ELSE <<0>>)
        \o (IF n = 1 THEN <<34, 1, 97, 84>> ELSE <<>>)
        \o <<close, n>> \o (IF open = 111 THEN <<>> ELSE <<0>>)

InitIDBValue ==
    /\ \/ \E n \in 0..MaxPairs : \E pairs \in [1..n -> [key : PairKeys, val : PairVals]] :
          \E count \in 0..(MaxPairs + 1) :
             inp = [kind |-> "object", pairs |-> pairs, count |-> count,
                    value |-> Frame \o ObjectBody(pairs, count)]
       \/ \E value \in OtherStreams :
             inp = [kind |-> "other", pairs |-> <<>>, count |-> 0, value |-> value]
       \/ \E n \in 0..MaxBody : \E body \in [1..n -> BodyBytes] :
             inp = [kind |-> "short", pairs |-> <<>>, count |-> 0, value |-> Frame \o body]
       \/ \E open \in ContainerTags : \E close \in EndMarkerTags : \E n \in 0..1 :
             inp = [kind |-> "container", pairs |-> <<>>, count |-> n,
                    open |-> open, close |-> close,
                    value |-> Frame \o ContainerBody(open, n, close)]
    /\ idb = [pc |-> "header", pos |-> 0]
    /\ ret = NoReturn
    /\ rd = Idle /\ le = Idle /\ mf = Idle /\ db = Idle /\ ut = Idle /\ tb = Idle

\* an assert, or the IndexError of read_varint, ends the call
ValueRaise(r) ==
    /\ idb' = [idb EXCEPT !.pc = "raised"]
    /\ ret' = [returned |-> TRUE, ok |-> FALSE, err |-> r.err]

\* lines 124-131
ValueReadHeader ==
    /\ idb.pc = "header"
    /\ LET h == ValueHeader(inp.value) IN
          IF h.ok THEN idb' = [pc |-> "tag", pos |-> h.pos] /\ ret' = ret
          ELSE ValueRaise(h)
    /\ UNCHANGED <<inp, rd, le, mf, db, ut, tb>>

\* lines 132-137
ValueReadTag ==
    /\ idb.pc = "tag"
    /\ LET t == ValueTag(inp.value, idb.pos) IN
          IF ~t.ok THEN ValueRaise(t)
          ELSE IF t.blob
          THEN /\ idb' = [pc |-> "returned", pos |-> t.pos]
               /\ ret' = [returned |-> TRUE, ok |-> TRUE, value |-> Blob]
          ELSE idb' = [pc |-> "deserialize", pos |-> t.pos] /\ ret' = ret
    /\ UNCHANGED <<inp, rd, le, mf, db, ut, tb>>

\* lines 140-142
ValueDeserialize ==
    /\ idb.pc = "deserialize"
    /\ LET v == ValueBody(inp.value, idb.pos) IN
          IF ~v.ok THEN ValueRaise(v)
          ELSE /\ idb' = [idb EXCEPT !.pc = "returned"]
               /\ ret' = [returned |-> TRUE, ok |-> TRUE, value |-> v.value]
    /\ UNCHANGED <<inp, rd, le, mf, db, ut, tb>>

NextIDBValue == ValueReadHeader \/ ValueReadTag \/ ValueDeserialize

SpecIDBValue == InitIDBValue /\ [][NextIDBValue]_vars

---------------------------------------------------------------------------
(* Claims about IDBValue.                                                  *)

\* the enumerated body is n pairs of a string key and a value, then '{' n
PairsOfValues ==
    /\ inp.kind = "object"
    /\ \A i \in 1..Len(inp.pairs) : inp.pairs[i].val.is_value
    /\ inp.count = Len(inp.pairs)

\* the same key occurs in two pairs of the enumerated body
SameKeyTwice ==
    \E i, j \in 1..Len(inp.pairs) : i < j /\ inp.pairs[i].key = inp.pairs[j].key

\* the object that holds the pairs in stream order
ObjectOfPairs ==
    PyDict([i \in 1..Len(inp.pairs) |-> <<inp.pairs[i].key.val, inp.pairs[i].val.val>>])

\* {"a": 2}
ObjectA2 == PyDict(<<<<PyStr(<<97>>), PyInt(SInt(<<0, 1>>))>>>>)

\* C18 as stated: IDBValue on the payload FF 0F FF 0D 6F 22 01 61 49 04 7B 01
\* returns {"a": 2}, and a framed value whose body is 'o', n pairs of a string
\* key and a value, '{' n decodes to the object of those n pairs in stream
\* order, 'I' values zigzag-decoded.
C18_ObjectDecoding ==
    ret.returned =>
        /\ inp.value = ExamplePayload => ret.ok /\ ret.value = ObjectA2
        /\ PairsOfValues => ret.ok /\ ret.value = ObjectOfPairs

\* C18 as amended: the payload of the example is refused for its wrap header
\* FF 0D and decodes to {"a": 2} behind a wrap header FF 11; a framed value
\* whose body is 'o', n pairs of a string key and a value, the keys all
\* different, '{' n decodes to the object of those n pairs in stream order,
\* 'I' values zigzag-decoded.
C18_FramedObjectDecoding ==
    ret.returned =>
        /\ inp.value = ExamplePayload => ~ret.ok
        /\ inp.value = Frame \o SubSeq(ExamplePayload, 5, Len(ExamplePayload))
              => ret.ok /\ ret.value = ObjectA2
        /\ PairsOfValues /\ ~SameKeyTwice => ret.ok /\ ret.value = ObjectOfPairs

\* an object of two pairs, one of them with an 'I' value, has been decoded
C18_Witness ==
    /\ ret.returned /\ ret.ok
    /\ PairsOfValues /\ ~SameKeyTwice
    /\ Len(inp.pairs) = 2
    /\ inp.pairs[2].val.val = PyInt([bits |-> <<>>, ext |-> 1])
    /\ ret.value = ObjectOfPairs

\* v, or a value held by v, is an EndMarker
RECURSIVE HoldsEndMarker(_)
HoldsEndMarker(v) ==
    IF v.type = "EndMarker" THEN TRUE
    ELSE IF v.type = "dict"
    THEN \E i \in 1..Len(v.items) :
            HoldsEndMarker(v.items[i][1]) \/ HoldsEndMarker(v.items[i][2])
    ELSE IF v.type = "list" THEN \E i \in 1..Len(v.elems) : HoldsEndMarker(v.elems[i])
    ELSE IF v.type = "tuple" THEN HoldsEndMarker(v.key) \/ HoldsEndMarker(v.val)
    ELSE FALSE

\* C19: for every byte stream on which IDBValue succeeds, neither the value
\* nor any object property value, array element or array property key or
\* value in the returned tree is an EndMarker.
C19_NoEndMarkerInValue ==
    ret.returned /\ ret.ok => ~HoldsEndMarker(ret.value)

\* C20: decoding an object body in which the same key occurs in two pairs
\* always fails, whatever count the '{' end marker declares.
C20_DuplicateKeyFails ==
    ret.returned /\ inp.kind = "object" /\ SameKeyTwice => ~ret.ok

---------------------------------------------------------------------------
(* Claims on the metaindex block (SpecDB).  Table file 5 of every folder   *)
(* has a metaindex block of one entry, MetaKey -> EncodeHandle(0, 0).      *)

\* the user key Block.__init__ (line 139) takes from MetaKey
MetaUserKey == SubSeq(MetaKey, 1, Len(MetaKey) - 8)

\* C21: each entry of the metaindex block of a live table file is in
\* Table.meta_entries, user key -> value, and so in DB.meta_entries when
\* DB.__init__ has ended: here the entry of table file 5.
C21_MetaIndexEntries ==
    (db.pc = "done" /\ 5 \in db.existing_files) =>
        /\ MetaUserKey \in DOMAIN db.meta_entries
        /\ db.meta_entries[MetaUserKey] = EncodeHandle(0, 0)

---------------------------------------------------------------------------
(* leveldb/db.py: DB.__init__ on a directory.  A file name is the sequence *)
(* of its character codes, a directory is the function from the names of   *)
(* its files to their contents, and the fields all_files, open and opened  *)
(* are added to the locals of DB.__init__: the files not yet asked for,    *)
(* the files that are open, and the files opened so far, in order.         *)

\* 'CURRENT', 'LOCK', 'LOG', 'LOG.old'
CURRENT == <<67, 85, 82, 82, 69, 78, 84>>
LOCK == <<76, 79, 67, 75>>
LOG == <<76, 79, 71>>
LOG_old == <<76, 79, 71, 46, 111, 108, 100>>

\* 'MANIFEST-', '.ldb', '.log'
MANIFEST_ == <<77, 65, 78, 73, 70, 69, 83, 84, 45>>
dot_ldb == <<46, 108, 100, 98>>
dot_log == <<46, 108, 111, 103>>

\* str(number)
RECURSIVE Digits(_)
Digits(n) == IF n < 10 THEN <<48 + n>> ELSE Digits(n \div 10) \o <<48 + (n % 10)>>

\* f'{number}': the digits without padding
format_plain(number) == Digits(number)

\* f'{number:06}': the digits, padded with zeros to six characters
format_06(number) ==
    [i \in 1..(6 - Len(Digits(number))) |-> 48] \o Digits(number)

\* get_table_file and get_log_file, lines 86-94: the name they ask get_file for
get_table_file(number) == format_06(number) \o dot_ldb
get_log_file(number) == format_06(number) \o dot_log

\* get_file without line 82
get_file_keep(s, file) == s

\* get_file, lines 80-84: the file is no longer in all_files
get_file(s, file) == [s EXCEPT !.all_files = @ \ {file}]

\* open(path): the file is open, or FileNotFoundError
file_open(s, dir, name) ==
    IF name \notin DOMAIN dir THEN DbFail(s, "No such file or directory")
    ELSE [s EXCEPT !.open = @ \cup {name}, !.opened = Append(@, name)]

\* the end of a with block that is left without an exception only
with_exit_on_success(s, name) ==
    IF s.pc = "failed" THEN s ELSE [s EXCEPT !.open = @ \ {name}]

\* the end of a with block (db.py:100, log_reader.py:92, table_reader.py:26):
\* the file is closed, however the block is left
with_exit(s, name) == [s EXCEPT !.open = @ \ {name}]

\* open(path, 'r'): text mode translates '\r\n' and '\r' into '\n'
RECURSIVE universal_newlines(_)
universal_newlines(bytes) ==
    IF bytes = <<>> THEN <<>>
    ELSE IF bytes[1] = 13 /\ Len(bytes) > 1 /\ bytes[2] = 10
    THEN <<10>> \o universal_newlines(SubSeq(bytes, 3, Len(bytes)))
    ELSE IF bytes[1] = 13 THEN <<10>> \o universal_newlines(Tail(bytes))
    ELSE <<bytes[1]>> \o universal_newlines(Tail(bytes))

\* the characters str.strip() removes, among the ASCII characters
Whitespace == (9..13) \cup (28..32)

\* str.strip()
RECURSIVE str_strip(_)
str_strip(text) ==
    IF text = <<>> THEN text
    ELSE IF text[1] \in Whitespace THEN str_strip(Tail(text))
    ELSE IF text[Len(text)] \in Whitespace THEN str_strip(SubSeq(text, 1, Len(text) - 1))
    ELSE text

\* get_manifest, lines 101-107: what is read from CURRENT, and the name of the
\* manifest
current_read(content) ==
    LET text == universal_newlines(content)
        manifest_name == SubSeq(text, 1, Min(20, Len(text)))
        next == SubSeq(text, 21, Min(21, Len(text)))
    IN IF next # <<>> THEN [ok |-> FALSE, err |-> "invalid manifest"]
       ELSE IF manifest_name = <<>> THEN [ok |-> FALSE, err |-> "string index out of range"]
       ELSE IF manifest_name[Len(manifest_name)] # 10
       THEN [ok |-> FALSE, err |-> "invalid manifest"]
       ELSE IF ~IsPrefix(MANIFEST_, manifest_name)
       THEN [ok |-> FALSE, err |-> "invalid manifest"]
       ELSE [ok |-> TRUE, name |-> str_strip(manifest_name)]

\* lines 30-39
FolderStart ==
    [pc |-> "listdir", existing_files |-> {}, log_number |-> -1, todo |-> {},
     entries |-> EmptyDict, meta_entries |-> EmptyDict, deleted_entries |-> EmptyDict,
     deleted_keys |-> {}, merged |-> EmptyDict, err |-> "",
     all_files |-> {}, open |-> {}, opened |-> <<>>, path |-> <<>>, f_number |-> -1,
     warning |-> FALSE]

\* line 34
DbListdir(dir, s) ==
    [s EXCEPT !.all_files = DOMAIN dir \ {LOCK, LOG, LOG_old}, !.pc = "get_manifest"]

\* get_manifest, lines 98-100: CURRENT is asked for and opened
DbOpenCurrent(dir, s) ==
    LET t == get_file(s, CURRENT) IN
    IF CURRENT \notin DOMAIN dir
    THEN DbFail(t, "CURRENT file doesn't exist or is a directory")
    ELSE file_open([t EXCEPT !.pc = "read_current"], dir, CURRENT)

\* get_manifest, lines 101-107, to the end of the with block
DbReadCurrent(dir, s) ==
    Apply(LAMBDA r :
            with_exit(IF ~r.ok THEN DbFail(s, r.err)
                      ELSE [get_file(s, r.name) EXCEPT !.path = r.name,
                                                       !.pc = "open_manifest"],
                      CURRENT),
          current_read(dir[CURRENT]))

\* line 110 and log_reader.py:92: the manifest is opened
DbOpenManifest(dir, s) == file_open([s EXCEPT !.pc = "read_manifest"], dir, s.path)

\* log_reader.py:92-124 and 176-211: the manifest is read, closed and decoded
DbReadManifest(dir, s) ==
    with_exit(DbGetManifest([manifest |-> dir[s.path]], s), s.path)

\* lines 43-45 and table_reader.py:26: the table file f_number is opened
DbOpenTable(dir, s, f_number) ==
    Apply(LAMBDA name :
            file_open([get_file(s, name) EXCEPT !.path = name, !.f_number = f_number,
                                                !.pc = "read_table"], dir, name),
          get_table_file(f_number))

\* table_reader.py:27-57 and lines 46-49: the table is read, closed and merged
DbReadTable(dir, s) ==
    with_exit(DbTable([tables |-> (s.f_number :> dir[s.path])],
                      [s EXCEPT !.pc = "tables"], s.f_number),
              s.path)

\* lines 52-57: without a log number no file is opened
DbOpenLog(dir, s) ==
    IF s.log_number = -1 THEN DbLog([logs |-> EmptyDict], s)
    ELSE Apply(LAMBDA name :
                 file_open([get_file(s, name) EXCEPT !.path = name, !.pc = "read_log"],
                           dir, name),
               get_log_file(s.log_number))

\* log_reader.py:92-139 and lines 58-59: the log is read, closed and merged
DbReadLog(dir, s) ==
    with_exit(DbLog([logs |-> (s.log_number :> dir[s.path])], s), s.path)

\* lines 72-74: the warning, and the end of __init__
DbWarn(s) == [s EXCEPT !.warning = (s.all_files # {}), !.pc = "done"]

---------------------------------------------------------------------------
(* Directories to open.  Either the folder of a history with a CURRENT     *)
(* file as LevelDB writes it, one of its files damaged or missing and      *)
(* other files beside them, or a fixed folder with a CURRENT file of any   *)
(* content.                                                                *)

\* operations in the history of an enumerated directory
MaxFolderOps == 2
\* characters after the prefix of an enumerated CURRENT file
MaxName == 2

\* the name of the manifest as LevelDB writes it: 'MANIFEST-000002'
ManifestName == MANIFEST_ \o format_06(2)

FolderOps ==
    {[kind |-> kTypeValue, key |-> <<97>>, val |-> <<7>>],
     [kind |-> kTypeDeletion, key |-> <<97>>, val |-> <<>>],
     [kind |-> kTypeValue, key |-> <<98>>, val |-> <<>>]}

\* what may be wrong with the files of the folder
Damages == {"none", "no_manifest", "bad_manifest", "no_table", "bad_table",
            "no_log", "bad_log"}

\* files beside those of the database: none, the files LevelDB keeps there,
\* or those and the table file 6 that the manifest has deleted
Extras == {{}, {LOCK, LOG, LOG_old}, {LOCK, LOG, get_table_file(6)}}

\* a record-log file whose first record has a wrong checksum
BadLog(file) == IF file = <<>> THEN file ELSE [file EXCEPT ![1].checksum = <<>>]

\* a table file cut short by one byte
BadTable(file) ==
    [bytes |-> SubSeq(file.bytes, 1, Len(file.bytes) - 1), crcs |-> file.crcs]

\* the contents of CURRENT: a prefix, a few characters ('2', 'a', ' ') or a
\* number of 10 or 11 digits, and an end of line
CurrentContents ==
    {prefix \o body \o end :
        prefix \in {MANIFEST_, SubSeq(MANIFEST_, 1, 8), <<>>},
        body \in UNION {[1..n -> {50, 97, 32}] : n \in 0..MaxName}
                   \cup {[i \in 1..k |-> IF i = k THEN 50 ELSE 48] : k \in {10, 11}},
        end \in {<<>>, <<10>>, <<13, 10>>, <<10, 10>>}}

\* text without the whitespace at its end
RECURSIVE TrimEnd(_)
TrimEnd(text) ==
    IF text # <<>> /\ text[Len(text)] \in Whitespace
    THEN TrimEnd(SubSeq(text, 1, Len(text) - 1))
    ELSE text

\* the directory of folder f: CURRENT (if any), the manifest under the name
\* manifest_name (if any), the table files, the log files and the extras
Directory(f, has_current, current, has_manifest, manifest_name, damage, extras) ==
    LET tables == {get_table_file(n) : n \in DOMAIN f.tables}
                      \ (IF damage = "no_table" THEN {get_table_file(5)} ELSE {})
        logs == IF damage = "no_log" THEN {} ELSE {get_log_file(n) : n \in DOMAIN f.logs}
        manifests == IF has_manifest /\ damage # "no_manifest" THEN {manifest_name}
                     ELSE {}
        currents == IF has_current THEN {CURRENT} ELSE {}
    IN [name \in currents \cup manifests \cup tables \cup logs \cup extras |->
          IF name \in currents THEN current
          ELSE IF name \in manifests
          THEN (IF damage = "bad_manifest" THEN BadLog(f.manifest) ELSE f.manifest)
          ELSE IF name \in tables
          THEN Apply(LAMBDA t : IF damage = "bad_table" THEN BadTable(t) ELSE t,
                     f.tables[CHOOSE n \in DOMAIN f.tables : get_table_file(n) = name])
          ELSE IF name \in logs
          THEN Apply(LAMBDA l : IF damage = "bad_log" THEN BadLog(l) ELSE l,
                     f.logs[CHOOSE n \in DOMAIN f.logs : get_log_file(n) = name])
          ELSE <<>>]

\* the folder of the directories with an arbitrary CURRENT file: one
\* operation in table file 5 and one in the log
FixedFolder ==
    Folder([ops |-> <<[kind |-> kTypeValue, key |-> <<97>>, val |-> <<7>>],
                      [kind |-> kTypeDeletion, key |-> <<97>>, val |-> <<>>]>>,
            s1 |-> 0, s2 |-> 1, has_log |-> TRUE])

InitFolder ==
    /\ \/ \E n \in 0..MaxFolderOps : \E ops \in [1..n -> FolderOps] :
          \E s2 \in 0..n : \E s1 \in 0..s2 : \E damage \in Damages : \E extras \in Extras :
             inp = [current |-> ManifestName \o <<10>>,
                    dir |-> Directory(Folder([ops |-> ops, s1 |-> s1, s2 |-> s2,
                                              has_log |-> s2 < n]),
                                      TRUE, ManifestName \o <<10>>, TRUE, ManifestName,
                                      damage, extras)]
       \/ \E current \in CurrentContents : \E has_manifest \in BOOLEAN :
             inp = [current |-> current,
                    dir |-> Directory(FixedFolder, TRUE, current, has_manifest,
                                      TrimEnd(current), "none", {LOCK})]
       \/ inp = [current |-> <<>>,
                 dir |-> Directory(FixedFolder, FALSE, <<>>, TRUE, ManifestName,
                                   "none", {})]
    /\ db = FolderStart
    /\ ret = NoReturn
    /\ rd = Idle /\ le = Idle /\ mf = Idle /\ ut = Idle /\ idb = Idle /\ tb = Idle

FolderListdir ==
    /\ db.pc = "listdir"
    /\ db' = DbListdir(inp.dir, db)
    /\ UNCHANGED <<inp, ret, rd, le, mf, ut, idb, tb>>

FolderOpenCurrent ==
    /\ db.pc = "get_manifest"
    /\ db' = DbOpenCurrent(inp.dir, db)
    /\ UNCHANGED <<inp, ret, rd, le, mf, ut, idb, tb>>

FolderReadCurrent ==
    /\ db.pc = "read_current"
    /\ db' = DbReadCurrent(inp.dir, db)
    /\ UNCHANGED <<inp, ret, rd, le, mf, ut, idb, tb>>

FolderOpenManifest ==
    /\ db.pc = "open_manifest"
    /\ db' = DbOpenManifest(inp.dir, db)
    /\ UNCHANGED <<inp, ret, rd, le, mf, ut, idb, tb>>

FolderReadManifest ==
    /\ db.pc = "read_manifest"
    /\ db' = DbReadManifest(inp.dir, db)
    /\ UNCHANGED <<inp, ret, rd, le, mf, ut, idb, tb>>

FolderOpenTable ==
    /\ db.pc = "tables"
    /\ \E f_number \in db.todo : db' = DbOpenTable(inp.dir, db, f_number)
    /\ UNCHANGED <<inp, ret, rd, le, mf, ut, idb, tb>>

FolderReadTable ==
    /\ db.pc = "read_table"
    /\ db' = DbReadTable(inp.dir, db)
    /\ UNCHANGED <<inp, ret, rd, le, mf, ut, idb, tb>>

FolderOpenLog ==
    /\ db.pc = "tables"
    /\ db.todo = {}
    /\ db' = DbOpenLog(inp.dir, db)
    /\ UNCHANGED <<inp, ret, rd, le, mf, ut, idb, tb>>

FolderReadLog ==
    /\ db.pc = "read_log"
    /\ db' = DbReadLog(inp.dir, db)
    /\ UNCHANGED <<inp, ret, rd, le, mf, ut, idb, tb>>

FolderPurgeDeleted ==
    /\ db.pc = "purge"
    /\ db' = DbPurge(db)
    /\ UNCHANGED <<inp, ret, rd, le, mf, ut, idb, tb>>

\* lines 65-70; the warning of lines 72-74 is still to come
FolderMoveDeletedKeys ==
    /\ db.pc = "move"
    /\ db' = [DbMove(db) EXCEPT !.pc = "warn"]
    /\ UNCHANGED <<inp, ret, rd, le, mf, ut, idb, tb>>

FolderWarn ==
    /\ db.pc = "warn"
    /\ db' = DbWarn(db)
    /\ UNCHANGED <<inp, ret, rd, le, mf, ut, idb, tb>>

NextFolder ==
    \/ FolderListdir \/ FolderOpenCurrent \/ FolderReadCurrent
    \/ FolderOpenManifest \/ FolderReadManifest
    \/ FolderOpenTable \/ FolderReadTable \/ FolderOpenLog \/ FolderReadLog
    \/ FolderPurgeDeleted \/ FolderMoveDeletedKeys \/ FolderWarn

SpecFolder == InitFolder /\ [][NextFolder]_vars

---------------------------------------------------------------------------
(* Claims on DB.__init__ on a directory (SpecFolder).                      *)

\* 'MANIFEST-', one or more decimal digits and one newline, 20 bytes at most
WellFormedCurrent(content) ==
    /\ Len(content) <= 20
    /\ Len(content) >= Len(MANIFEST_) + 2
    /\ IsPrefix(MANIFEST_, content)
    /\ content[Len(content)] = 10
    /\ \A i \in (Len(MANIFEST_) + 1)..(Len(content) - 1) : content[i] \in 48..57

\* C22: a CURRENT file whose content is not 'MANIFEST-', digits and one
\* newline within 20 bytes makes DB.__init__ fail before a manifest file is
\* opened: no file but CURRENT is ever opened, and __init__ does not go on.
C22_CurrentFormat ==
    ~WellFormedCurrent(inp.current) =>
        /\ \A i \in 1..Len(db.opened) : db.opened[i] = CURRENT
        /\ db.pc \in {"listdir", "get_manifest", "read_current", "failed"}

\* the name of a numbered file below 10^6: six decimal digits and the extension
SixDigits(n) == [i \in 1..6 |-> 48 + ((n \div (10 ^ (6 - i))) % 10)]

\* the files DB.__init__ has asked for when it ends: CURRENT, the manifest
\* CURRENT names, the live table files and the log file
Consumed(s) ==
    {CURRENT, TrimEnd(inp.current)}
        \cup {SixDigits(n) \o dot_ldb : n \in s.existing_files}
        \cup (IF s.log_number = -1 THEN {} ELSE {SixDigits(s.log_number) \o dot_log})

\* C23: when DB.__init__ has ended, all_files is the listing of the directory
\* without LOCK, LOG, LOG.old and the files asked for; the warning for what is
\* left changes none of entries, meta_entries and deleted_entries.
C23_UnusedFiles ==
    /\ [](db.pc = "done" =>
            /\ db.all_files = (DOMAIN inp.dir \ {LOCK, LOG, LOG_old}) \ Consumed(db)
            /\ db.warning = (db.all_files # {}))
    /\ [][db.pc = "warn" =>
            /\ db'.pc = "done"
            /\ db'.entries = db.entries
            /\ db'.meta_entries = db.meta_entries
            /\ db'.deleted_entries = db.deleted_entries]_vars

\* C23 witness: a snapshot built from a table file and a log file, with a
\* warning for the table file 6 that nothing asked for.
C23_Witness ==
    /\ db.pc = "done"
    /\ db.warning
    /\ db.all_files = {SixDigits(6) \o dot_ldb}
    /\ Len(db.opened) = 4
    /\ DOMAIN db.deleted_entries # {}

\* C24: at most one file is open at any moment of DB.__init__, and none when
\* it has ended, with a snapshot or with a failure.
C24_FilesClosed ==
    /\ Cardinality(db.open) <= 1
    /\ db.pc \in {"done", "failed"} => db.open = {}

\* C24 witness: a failure while the third file, a table file, was read; the
\* file is closed.
C24_Witness ==
    /\ db.pc = "failed"
    /\ Len(db.opened) = 3
    /\ db.opened[3] = SixDigits(5) \o dot_ldb
    /\ db.err = "Not a valid table file"
    /\ db.open = {}

---------------------------------------------------------------------------
(* leveldb/table_reader.py: Table.__init__ step by step.  data_blocks is   *)
(* the list __data_blocks: for each block the index value it was read for  *)
(* and the three dicts of the Block object.                                *)

\* the locals of Table.__init__ when it is entered
TbStart ==
    [pc |-> "footer", metaindex_handle |-> <<>>, index_handle |-> <<>>,
     index_items |-> <<>>, i |-> 1, data_blocks |-> <<>>,
     entries |-> EmptyDict, meta_entries |-> EmptyDict, deleted_entries |-> EmptyDict,
     err |-> ""]

TbFail(s, err) == [s EXCEPT !.pc = "failed", !.err = err]

\* lines 27-37: the magic number and the two handles of the footer
TbFooter(file, s) ==
    LET size == Len(file.bytes)
        index_meta_blocks == SubSeq(file.bytes, size - 47, size - 8)
        metaindex_handle == BlockHandle(index_meta_blocks, 0)
        index_handle == IF metaindex_handle.ok
                        THEN BlockHandle(index_meta_blocks, metaindex_handle.pos)
                        ELSE metaindex_handle
    IN
    IF size < 8 THEN TbFail(s, "Invalid argument")
    ELSE IF SubSeq(file.bytes, size - 7, size) # MAGIC
    THEN TbFail(s, "Not a valid table file")
    ELSE IF size < 48 THEN TbFail(s, "Invalid argument")
    ELSE IF ~index_handle.ok THEN TbFail(s, index_handle.err)
    ELSE [s EXCEPT !.metaindex_handle = metaindex_handle,
                   !.index_handle = index_handle, !.pc = "index"]

\* lines 39-43: the index block and the metaindex block
TbIndex(file, s) ==
    Apply(LAMBDA index_block :
            IF ~index_block.ok THEN TbFail(s, index_block.err)
            ELSE Apply(LAMBDA meta_block :
                         IF ~meta_block.ok THEN TbFail(s, meta_block.err)
                         ELSE [s EXCEPT !.index_items = index_block.entries,
                                        !.i = 1, !.pc = "data_blocks"],
                       Block(file, s.metaindex_handle, TRUE)),
          Block(file, s.index_handle, FALSE))

\* lines 44-48: one turn of the loop over index_block.entries.items()
TbDataBlock(file, s) ==
    Apply(LAMBDA data_block :
            IF ~data_block.ok THEN TbFail(s, data_block.err)
            ELSE [s EXCEPT !.data_blocks =
                               Append(@, [val |-> s.index_items[s.i][2],
                                          entries |-> data_block.entries,
                                          meta_entries |-> data_block.meta_entries,
                                          deleted_entries |-> data_block.deleted_entries]),
                           !.i = s.i + 1],
          data_block_of(file, s.index_items[s.i][2]))

\* lines 54-57: the loop over the data blocks from the j-th on
RECURSIVE TbMergeFrom(_, _)
TbMergeFrom(s, j) ==
    IF j > Len(s.data_blocks) THEN s
    ELSE TbMergeFrom(
             [s EXCEPT !.entries = DictUpdate(@, DictOf(s.data_blocks[j].entries)),
                       !.meta_entries = DictUpdate(@, s.data_blocks[j].meta_entries),
                       !.deleted_entries = DictUpdate(@, s.data_blocks[j].deleted_entries)],
             j + 1)

\* lines 50-57
TbMerge(s) == [TbMergeFrom(s, 1) EXCEPT !.pc = "done"]

---------------------------------------------------------------------------
(* Table files to decode: the table LevelDB writes for a history of        *)
(* operations (the k-th with sequence number k), and tables of one data    *)
(* block whose last entry declares other lengths than it has.              *)

\* operations of an enumerated table
MaxTableOps == 3
\* entries of an enumerated data block with a deviating entry
MaxRawEntries == 2

\* what the last entry declares beyond what it has: shared bytes, bytes of
\* the key and bytes of the value
Deviations ==
    {[shared |-> 0, non_shared |-> 0, val_len |-> 0],
     [shared |-> 1, non_shared |-> 0, val_len |-> 0],
     [shared |-> 10, non_shared |-> 0, val_len |-> 0],
     [shared |-> 0, non_shared |-> 1, val_len |-> 0],
     [shared |-> 0, non_shared |-> 21, val_len |-> 0],
     [shared |-> 0, non_shared |-> 0, val_len |-> 1],
     [shared |-> 0, non_shared |-> 0, val_len |-> 9]}

\* the n entries of such a block: keys 'a', 'b', ... with the value 07, none
\* sharing a byte with the key before it
RawItems(n) ==
    [k \in 1..n |-> <<InternalKeyOf([key |-> <<96 + k>>, kind |-> kTypeValue,
                                     sequence |-> k]), <<7>>>>]

\* a block of items, each a restart point, the last one declaring dev more
RawBlock(items, dev) ==
    Concat([k \in 1..Len(items) |->
              LET d == IF k = Len(items) THEN dev
                       ELSE [shared |-> 0, non_shared |-> 0, val_len |-> 0]
              IN EncodeVarint(d.shared) \o EncodeVarint(Len(items[k][1]) + d.non_shared)
                     \o EncodeVarint(Len(items[k][2]) + d.val_len)
                     \o items[k][1] \o items[k][2]])
        \o <<0, 0, 0, 0>> \o LittleEndian(1, 4)

\* the table of one data block with the given contents
RawTable(contents) ==
    FinishTable([file |-> AppendBlock([bytes |-> <<>>, crcs |-> EmptyDict], contents),
                 index |-> <<<<InternalKeyOf([key |-> <<122>>, kind |-> kTypeValue,
                                              sequence |-> 9]),
                               EncodeHandle(0, Len(contents))>>>>],
                <<>>)

\* the operations of a history with their sequence numbers
TableOps(ops) == OpsIn([ops |-> ops], 1, Len(ops))

\* the index entries LevelDB writes for the table of ops
WrittenIndex(ops) ==
    WriteDataBlocks([file |-> [bytes |-> <<>>, crcs |-> EmptyDict], index |-> <<>>],
                    TableItems(TableOps(ops))).index

InitTable ==
    /\ \/ \E n \in 0..MaxTableOps : \E ops \in [1..n -> HistoryOps] :
             inp = [kind |-> "written", ops |-> ops,
                    index |-> WrittenIndex(ops),
                    file |-> TableFile(TableOps(ops),
                                       <<<<MetaKey, EncodeHandle(0, 0)>>>>)]
       \/ \E n \in 1..MaxRawEntries : \E dev \in Deviations :
             inp = [kind |-> "raw", n |-> n, dev |-> dev,
                    file |-> RawTable(RawBlock(RawItems(n), dev))]
    /\ tb = TbStart
    /\ ret = NoReturn
    /\ rd = Idle /\ le = Idle /\ mf = Idle /\ db = Idle /\ ut = Idle /\ idb = Idle

TableFooter ==
    /\ tb.pc = "footer"
    /\ tb' = TbFooter(inp.file, tb)
    /\ UNCHANGED <<inp, ret, rd, le, mf, db, ut, idb>>

TableIndex ==
    /\ tb.pc = "index"
    /\ tb' = TbIndex(inp.file, tb)
    /\ UNCHANGED <<inp, ret, rd, le, mf, db, ut, idb>>

TableDataBlock ==
    /\ tb.pc = "data_blocks"
    /\ tb.i <= Len(tb.index_items)
    /\ tb' = TbDataBlock(inp.file, tb)
    /\ UNCHANGED <<inp, ret, rd, le, mf, db, ut, idb>>

TableMerge ==
    /\ tb.pc = "data_blocks"
    /\ tb.i > Len(tb.index_items)
    /\ tb' = TbMerge(tb)
    /\ UNCHANGED <<inp, ret, rd, le, mf, db, ut, idb>>

NextTable == TableFooter \/ TableIndex \/ TableDataBlock \/ TableMerge

SpecTable == InitTable /\ [][NextTable]_vars

---------------------------------------------------------------------------
(* Claims on Table and Block (SpecTable).                                  *)

\* C25: Table decodes the data block of every entry of the index block, once
\* each and in index order, whatever the kind of the index key and also when
\* index keys share a user key: when Table.__init__ has ended on a written
\* table, the blocks it decoded are those of the index values, in order.
C25_EveryIndexedBlock ==
    (tb.pc = "done" /\ inp.kind = "written") =>
        [j \in 1..Len(tb.data_blocks) |-> tb.data_blocks[j].val]
            = [j \in 1..Len(inp.index) |-> inp.index[j][2]]

\* the sequence numbers of the VALUE operations of the table on key k
ValuesOn(k) ==
    {j \in 1..Len(inp.ops) : inp.ops[j].key = k /\ inp.ops[j].kind = kTypeValue}

\* C26: a user key for which the table holds several VALUE entries is in
\* Table.entries with the value of the entry of the highest sequence number.
C26_HighestSequenceWins ==
    (tb.pc = "done" /\ inp.kind = "written") =>
        \A k \in UserKeys :
            Cardinality(ValuesOn(k)) > 1 =>
                /\ k \in DOMAIN tb.entries
                /\ tb.entries[k] = inp.ops[Last(ValuesOn(k))].val

\* the last entry of a raw block declares more bytes than are left before the
\* restart array, or more shared bytes than the key before it has
Overruns(in) ==
    \/ in.dev.non_shared + in.dev.val_len > 0
    \/ in.dev.shared > (IF in.n = 1 THEN 0 ELSE Len(RawItems(in.n)[in.n - 1][1]))

\* C27: a block with an entry whose key or value runs past the start of the
\* restart array, or whose shared length exceeds the length of the key
\* before it (0 for the first entry), is not decoded: Table.__init__ fails.
C27_EntryBounds ==
    (inp.kind = "raw" /\ Overruns(inp)) => tb.pc # "done"

---------------------------------------------------------------------------
(* Claims on the end markers of the V8 containers (SpecIDBValue).          *)

\* C28: each container is closed only by its own end marker, an object by
\* '{', a sparse array by '@', a dense array by '$': IDBValue fails on a
\* container that meets one of the other two markers where a key is expected.
C28_OwnEndMarker ==
    (ret.returned /\ inp.kind = "container" /\ inp.close # OwnEndMarker(inp.open))
        => ~ret.ok

---------------------------------------------------------------------------
(* IDB.get_obj_store_entries, step by step.  A dict is the sequence of its  *)
(* items in insertion order; idb holds the locals of the call.             *)

\* bytes.startswith
startswith(s, prefix) == IsPrefix(prefix, s)

\* io.BytesIO(value), line 124: the stream of the value None is empty
BytesIO(value) == IF value = None THEN <<>> ELSE value

\* the items e of a dict with e[0].startswith(key_prefix), lines 281-282
RECURSIVE items_startswith(_, _)
items_startswith(items, key_prefix) ==
    IF items = <<>> THEN <<>>
    ELSE (IF startswith(Head(items)[1], key_prefix) THEN <<Head(items)>> ELSE <<>>)
             \o items_startswith(Tail(items), key_prefix)

\* IDB.Entry
Entry(key, value) == [key |-> key, value |-> value]

\* lines 284-286 and 288-290: the key, then the value, then the entry
entry_of(key, val) ==
    IF ~key.ok THEN key
    ELSE IF ~val.ok THEN val
    ELSE [ok |-> TRUE, entry |-> Entry(key.key, val.value)]

decode_entry(k, v) == entry_of(IDBKey(k), IDBValue(BytesIO(v)))

\* an exception leaves the call
StoreRaise(r) ==
    /\ idb' = [pc |-> "raised"]
    /\ ret' = [returned |-> TRUE, ok |-> FALSE, err |-> r.err]

---------------------------------------------------------------------------
(* The enumerated dicts of IDB.                                            *)

\* items in an enumerated dict
MaxStoreEntries == 2

\* the ids 1 and 2
StoreIds == {<<1>>, <<0, 1>>}

\* the keys "a" and "b" of store 1 and the key "a" of store 2, database 1,
\* index 1
StoreKeys ==
    {<<0, 1, 1, 1, 1, 1, 0, 97>>, <<0, 1, 1, 1, 1, 1, 0, 98>>,
     <<0, 1, 2, 1, 1, 1, 0, 97>>}

\* the values {} and True, and a value that is cut after the version
LiveValues == {Frame \o <<111, 123, 0>>, Frame \o <<84>>, <<1, 255>>}

\* the values that a tombstone has in DB.deleted_entries: the value of the
\* deleted key, the empty byte string of a table tombstone, None
DeletedValues == {Frame \o <<111, 123, 0>>, <<>>, None}

\* the dicts of at most MaxStoreEntries items with different keys
Dicts(values) ==
    UNION {{d \in [1..n -> StoreKeys \X values] :
               \A i, j \in 1..n : i < j => d[i][1] # d[j][1]} : n \in 0..MaxStoreEntries}

InitIDB ==
    /\ \E entries \in Dicts(LiveValues) : \E deleted_entries \in Dicts(DeletedValues) :
       \E obj_store_id \in StoreIds :
          inp = [entries |-> entries, deleted_entries |-> deleted_entries,
                 db_id |-> <<1>>, obj_store_id |-> obj_store_id]
    /\ idb = [pc |-> "filter"]
    /\ ret = NoReturn
    /\ rd = Idle /\ le = Idle /\ mf = Idle /\ db = Idle /\ ut = Idle /\ tb = Idle

\* lines 277-282
StoreFilter ==
    /\ idb.pc = "filter"
    /\ LET key_prefix == encode_key_prefix(inp.db_id, inp.obj_store_id, <<1>>) IN
          IF ~key_prefix.ok THEN StoreRaise(key_prefix)
          ELSE /\ idb' = [pc |-> "entries",
                          store_entries |-> <<>>, store_deleted_entries |-> <<>>,
                          ldb_store_entries |->
                              items_startswith(inp.entries, key_prefix.bytes),
                          ldb_store_deleted_entries |->
                              items_startswith(inp.deleted_entries, key_prefix.bytes)]
               /\ ret' = ret
    /\ UNCHANGED <<inp, rd, le, mf, db, ut, tb>>

\* lines 283-286: one turn of the loop over the live items
StoreEntryOf(e) ==
    IF ~e.ok THEN StoreRaise(e)
    ELSE /\ idb' = [idb EXCEPT !.ldb_store_entries = Tail(@),
                               !.store_entries = Append(@, e.entry)]
         /\ ret' = ret

StoreEntry ==
    /\ idb.pc = "entries"
    /\ IF idb.ldb_store_entries = <<>>
       THEN idb' = [idb EXCEPT !.pc = "deleted_entries"] /\ ret' = ret
       ELSE StoreEntryOf(decode_entry(Head(idb.ldb_store_entries)[1],
                                      Head(idb.ldb_store_entries)[2]))
    /\ UNCHANGED <<inp, rd, le, mf, db, ut, tb>>

\* lines 287-290: one turn of the loop over the deleted items
StoreDeletedEntryOf(e) ==
    IF ~e.ok THEN StoreRaise(e)
    ELSE /\ idb' = [idb EXCEPT !.ldb_store_deleted_entries = Tail(@),
                               !.store_deleted_entries = Append(@, e.entry)]
         /\ ret' = ret

StoreDeletedEntry ==
    /\ idb.pc = "deleted_entries"
    /\ IF idb.ldb_store_deleted_entries = <<>>
       THEN idb' = [idb EXCEPT !.pc = "return"] /\ ret' = ret
       ELSE StoreDeletedEntryOf(decode_entry(Head(idb.ldb_store_deleted_entries)[1],
                                             Head(idb.ldb_store_deleted_entries)[2]))
    /\ UNCHANGED <<inp, rd, le, mf, db, ut, tb>>

\* line 291
StoreReturn ==
    /\ idb.pc = "return"
    /\ idb' = [idb EXCEPT !.pc = "returned"]
    /\ ret' = [returned |-> TRUE, ok |-> TRUE, store_entries |-> idb.store_entries,
               store_deleted_entries |-> idb.store_deleted_entries]
    /\ UNCHANGED <<inp, rd, le, mf, db, ut, tb>>

NextIDB == StoreFilter \/ StoreEntry \/ StoreDeletedEntry \/ StoreReturn

SpecIDB == InitIDB /\ [][NextIDB]_vars

---------------------------------------------------------------------------
(* Claims about IDB.                                                       *)

\* the prefix of the store that is asked for
AskedPrefix == encode_key_prefix(inp.db_id, inp.obj_store_id, <<1>>).bytes

\* the live items under the prefix, and their entries when all decode
LiveUnderPrefix ==
    SelectSeq(inp.entries, LAMBDA e : startswith(e[1], AskedPrefix))

LiveDecodes ==
    \A i \in 1..Len(LiveUnderPrefix) :
        IDBKey(LiveUnderPrefix[i][1]).ok /\ IDBValue(LiveUnderPrefix[i][2]).ok

LiveDecoded ==
    [i \in 1..Len(LiveUnderPrefix) |->
        Entry(IDBKey(LiveUnderPrefix[i][1]).key, IDBValue(LiveUnderPrefix[i][2]).value)]

\* C29: get_obj_store_entries(db_id, store_id) returns the decoded live
\* entries of the store whenever every live entry under the prefix decodes,
\* also when deleted_entries holds keys under the prefix whose value is the
\* empty byte string or None.
C29_LiveEntriesReturned ==
    (ret.returned /\ LiveDecodes) => ret.ok /\ ret.store_entries = LiveDecoded

---------------------------------------------------------------------------
(* IDBValue.v8_deserizlize call by call.  idb holds the stream position,   *)
(* the value that the last call returned and the stack of the calls that   *)
(* wait for the value of a call they made: an object, a sparse array or a  *)
(* dense array, each with its locals.                                      *)

V8Start(pos) == [pc |-> "call", pos |-> pos, stack |-> <<>>, val |-> PyNone, err |-> ""]

V8Fail(s, err) == [s EXCEPT !.pc = "raised", !.err = err]

\* the locals of a container when it makes its first call: the tag, the
\* properties or elements so far, where the key in hand was read, the key,
\* the declared length, the dense elements still to read
NewCall(tag, pos, arr_len1, left) ==
    [tag |-> tag, acc |-> <<>>, at |-> pos, has_key |-> FALSE, key |-> PyNone,
     arr_len1 |-> arr_len1, left |-> left, property_count |-> 0]

\* the container calls v8_deserizlize and waits
Push(s, pos, call) == [s EXCEPT !.pos = pos, !.stack = Append(@, call)]

\* the container takes the value and calls again
SetTop(s, call) == [s EXCEPT !.stack[Len(s.stack)] = call, !.pc = "call"]

\* return
Return(s, val, pos) ==
    [s EXCEPT !.stack = SubSeq(@, 1, Len(@) - 1), !.val = val, !.pos = pos,
              !.pc = "return"]

\* a reader that looks at a padding byte and leaves it in the stream
keep_padding(s, t) == s

\* lines 149-150: the call on the stream behind the padding byte, whose
\* value is returned as it is
skip_padding(s, t) == [s EXCEPT !.pos = t.pos]

\* what the reads of the code give at each position of the stream, worked
\* out once per stream: the value of a tag that needs no further call, the
\* varint32 of an array length, and the turns range() makes of it
StreamReads(buf) ==
    [leaf |-> [p \in 0..Len(buf) |->
                  IF p < Len(buf) /\ buf[p + 1] \in {0, 111, 97, 65}
                  THEN [ok |-> FALSE, err |-> ""]
                  ELSE v8_deserizlize(buf, p)],
     varint32 |-> [p \in 0..Len(buf) |-> wide_read_varint32(buf, p)],
     range |-> [p \in 0..Len(buf) |->
                   IF wide_read_varint32(buf, p).ok
                   THEN CountOf(wide_read_varint32(buf, p).val) ELSE 0]]

\* lines 184 and 196
V8EnterArray(s, tag, arr_len1, range) ==
    IF ~arr_len1.ok THEN V8Fail(s, arr_len1.err)
    ELSE Push(s, arr_len1.pos,
              NewCall(tag, arr_len1.pos, arr_len1.val, IF tag = 65 THEN range ELSE 0))

\* the tags whose value needs no further call
V8Leaf(s, r) ==
    IF ~r.ok THEN V8Fail(s, r.err)
    ELSE [s EXCEPT !.pc = "return", !.pos = r.pos, !.val = r.val]

\* lines 148-217: a call up to the first call it makes, or to its return
V8Enter(s, reads, t) ==
    IF ~t.ok THEN V8Fail(s, t.err)
    ELSE IF t.bytes[1] = 0 THEN skip_padding(s, t)
    ELSE IF t.bytes[1] = 111 THEN Push(s, t.pos, NewCall(111, t.pos, <<>>, 0))
    ELSE IF t.bytes[1] \in {97, 65}
    THEN V8EnterArray(s, t.bytes[1], reads.varint32[t.pos], reads.range[t.pos])
    ELSE V8Leaf(s, reads.leaf[s.pos])

\* line 159
V8ObjectSet(s, c, h) ==
    IF ~h.ok THEN V8Fail(s, h.err)
    ELSE SetTop(s, [c EXCEPT !.has_key = FALSE, !.at = s.pos,
                             !.acc = ObjSet(c.acc, h.key, c.key, s.val)])

\* lines 154-159: the object takes the value of the call it made
V8Object(s, c) ==
    IF c.has_key THEN V8ObjectSet(s, c, HashKey(c.key, c.at))
    ELSE IF s.val.type # "EndMarker" THEN SetTop(s, [c EXCEPT !.has_key = TRUE, !.key = s.val])
    ELSE IF BitsOf(Len(c.acc)) # s.val.count
    THEN V8Fail(s, "obj has other properties than expected")
    ELSE Return(s, PyDict([i \in 1..Len(c.acc) |-> <<c.acc[i][2], c.acc[i][3]>>]), s.pos)

\* lines 189-191 and 205-207
V8ArrayEnd(s, c, arr_len2) ==
    IF ~arr_len2.ok THEN V8Fail(s, arr_len2.err)
    ELSE IF c.arr_len1 # arr_len2.val THEN V8Fail(s, "array length mismatch")
    ELSE Return(s, PyList(c.acc), arr_len2.pos)

\* lines 186-193 and 202-210: the array takes a property key or value
V8Properties(s, c, reads, count) ==
    IF c.has_key
    THEN SetTop(s, [c EXCEPT !.has_key = FALSE, !.acc = Append(@, PyTuple(c.key, s.val)),
                             !.property_count = @ + 1])
    ELSE IF s.val.type # "EndMarker" THEN SetTop(s, [c EXCEPT !.has_key = TRUE, !.key = s.val])
    ELSE IF BitsOf(count) # s.val.count
    THEN V8Fail(s, "arr has other properties than expected")
    ELSE V8ArrayEnd(s, c, reads.varint32[s.pos])

\* lines 197-199: the dense array takes an element
V8Element(s, c) == SetTop(s, [c EXCEPT !.acc = Append(@, s.val), !.left = @ - 1])

\* what the caller of v8_deserizlize gets
V8Result(s) ==
    IF s.pc = "returned" THEN [returned |-> TRUE, ok |-> TRUE, value |-> s.val, pos |-> s.pos]
    ELSE IF s.pc = "raised" THEN [returned |-> TRUE, ok |-> FALSE, err |-> s.err]
    ELSE NoReturn

---------------------------------------------------------------------------
(* Decoding to its end: get_log_records on the enumerated record-log files *)
(* and v8_deserizlize on enumerated streams.  The code is one thread       *)
(* that runs on without waiting, so a step that can be taken is taken.     *)

\* streams that nest containers in containers and runs of padding
NestedStreams ==
    {<<0, 0, 0, 84>>,
     <<0, 0>>,
     <<111, 34, 1, 97, 65, 1, 111, 123, 0, 36, 0, 1, 123, 1>>,
     <<65, 2, 65, 0, 36, 0, 0, 97, 0, 64, 0, 0, 36, 0, 2>>,
     <<111, 0, 111, 0, 111>>,
     <<97, 1, 73, 0, 111, 34, 1, 98, 70, 123, 1, 64, 1, 1>>}

V8Streams ==
    {ObjectBody(pairs, Len(pairs)) :
        pairs \in UNION {[1..n -> [key : PairKeys, val : PairVals]] : n \in 0..MaxPairs}}
    \cup UNION {[1..n -> BodyBytes] : n \in 0..MaxBody}
    \cup {ContainerBody(open, n, close) :
             open \in ContainerTags, n \in 0..1, close \in EndMarkerTags}
    \cup {SubSeq(v, 6, Len(v)) : v \in {o \in OtherStreams : IsPrefix(Frame, o)}}
    \cup NestedStreams

InitV8 ==
    /\ \E value \in V8Streams :
          inp = [kind |-> "v8", value |-> value, reads |-> StreamReads(value)]
    /\ idb = V8Start(0)
    /\ ret = NoReturn
    /\ rd = Idle /\ le = Idle /\ mf = Idle /\ db = Idle /\ ut = Idle /\ tb = Idle

\* a call of v8_deserizlize
V8Call ==
    /\ idb.pc = "call"
    /\ idb' = V8Enter(idb, inp.reads, read_safe(inp.value, idb.pos, 1))
    /\ ret' = V8Result(idb')
    /\ UNCHANGED <<inp, rd, le, mf, db, ut, tb>>

\* a call returns to the object that made it
V8ObjectTurn ==
    /\ idb.pc = "return" /\ idb.stack # <<>>
    /\ idb.stack[Len(idb.stack)].tag = 111
    /\ idb' = V8Object(idb, idb.stack[Len(idb.stack)])
    /\ ret' = V8Result(idb')
    /\ UNCHANGED <<inp, rd, le, mf, db, ut, tb>>

\* a call returns to the sparse array that made it
V8SparseTurn ==
    /\ idb.pc = "return" /\ idb.stack # <<>>
    /\ idb.stack[Len(idb.stack)].tag = 97
    /\ idb' = V8Properties(idb, idb.stack[Len(idb.stack)], inp.reads,
                           Len(idb.stack[Len(idb.stack)].acc))
    /\ ret' = V8Result(idb')
    /\ UNCHANGED <<inp, rd, le, mf, db, ut, tb>>

\* a call returns to the dense array that made it
V8DenseTurn ==
    /\ idb.pc = "return" /\ idb.stack # <<>>
    /\ idb.stack[Len(idb.stack)].tag = 65
    /\ idb' = IF idb.stack[Len(idb.stack)].left > 0
              THEN V8Element(idb, idb.stack[Len(idb.stack)])
              ELSE V8Properties(idb, idb.stack[Len(idb.stack)], inp.reads,
                                idb.stack[Len(idb.stack)].property_count)
    /\ ret' = V8Result(idb')
    /\ UNCHANGED <<inp, rd, le, mf, db, ut, tb>>

\* the outermost call returns
V8Finish ==
    /\ idb.pc = "return" /\ idb.stack = <<>>
    /\ idb' = [idb EXCEPT !.pc = "returned"]
    /\ ret' = V8Result(idb')
    /\ UNCHANGED <<inp, rd, le, mf, db, ut, tb>>

NextV8 == V8Call \/ V8ObjectTurn \/ V8SparseTurn \/ V8DenseTurn \/ V8Finish

\* the files with a damaged checksum are the shorter ones
InitDecoding ==
    \/ InitLog /\ (inp.corrupt = 0 \/ Len(inp.descs) < MaxPhys)
    \/ InitV8

NextDecoding == NextLog \/ NextV8

SpecDecoding == InitDecoding /\ [][NextDecoding]_vars /\ WF_vars(NextDecoding)

---------------------------------------------------------------------------
(* Claims on the end of decoding (SpecDecoding).                           *)

\* the call has ended, with a result or with a failure
Ended == rd.pc \in {"returned", "failed"} \/ idb.pc \in {"returned", "raised"}

\* a turn of a loop of get_log_records that does not fail reads on: the
\* outer loop takes a block, the loop over the records of a block and the
\* loop over the fragments of a record take a record
LogTurnConsumes ==
    /\ (rd.pc = "next_block" /\ rd'.pc = "block_loop") =>
           rd'.fpos >= rd.fpos + 1 /\ rd'.cur >= rd.cur
    /\ (rd.pc = "block_loop" /\ rd'.pc \in {"block_loop", "frag_loop"}) =>
           rd'.cur >= rd.cur + 1 /\ rd'.fpos = rd.fpos
    /\ (rd.pc = "frag_loop" /\ rd'.pc \in {"block_loop", "frag_loop"}) =>
           rd'.cur >= rd.cur + 1 /\ rd'.fpos >= rd.fpos

\* a call of v8_deserizlize that does not fail reads at least one byte, and
\* a return leaves the stream where it is or behind the count of the array
V8CallConsumes ==
    /\ (idb.pc = "call" /\ idb'.pc # "raised") => idb'.pos >= idb.pos + 1
    /\ (idb.pc = "return" /\ idb'.pc # "raised") => idb'.pos >= idb.pos

\* C30: decoding always terminates: get_log_records ends on every file, with
\* a record list or a failure, and v8_deserizlize ends on every byte string,
\* with a value or a failure; every turn of a loop and every call reads at
\* least one byte.
C30_DecodingTerminates ==
    /\ <>Ended
    /\ [][LogTurnConsumes /\ V8CallConsumes]_vars

\* v8_deserizlize has returned an object that holds a dense array that holds
\* an object, at the end of the stream
C30_Witness ==
    /\ idb.pc = "returned"
    /\ inp.value = <<111, 34, 1, 97, 65, 1, 111, 123, 0, 36, 0, 1, 123, 1>>
    /\ idb.pos = Len(inp.value)
    /\ ret.ok /\ ret.value.type = "dict"

====
